---- MODULE Spec2Model ----
(***************************************************************************)
(* Model of backend/style_analyzer.py: the StyleAnalyzer class, the        *)
(* module-level segmentation helpers it is built on, and the profile       *)
(* returned by analyze(); and of backend/main.py: the request handlers     *)
(* that persist, return, rewrite with and delete the profiles.             *)
(*                                                                         *)
(* A Python str is a sequence of characters; a character is a one-letter   *)
(* string.  Characters outside ASCII are written by code point ("U+2014"). *)
(* The module's constant tables are written as string literals and a       *)
(* character sequence is compared with them through Str.                   *)
(*                                                                         *)
(* Floats: every metric is a quotient of two small integers, rounded by    *)
(* round(x, k).  A rounded metric is kept as the integer x * 10^k          *)
(* (thousandths for k = 3, hundredths for k = 2).                          *)
(***************************************************************************)
EXTENDS Integers, Sequences, FiniteSets, TLC

(***************************************************************************)
(* State.  An analyzer is built from a caller's samples (__init__) and     *)
(* then serves one call: analyze(), or one of the miners called directly.  *)
(* The server keeps its profiles in the files of one directory.            *)
(***************************************************************************)
VARIABLES
  request,  \* request[a]: the sample texts the caller hands to analyzer a
  pc,       \* pc[a]: "absent", "new", "ready", "analyze:<next local>", "returned"
  obj,      \* obj[a]: <<>> before __init__, then <<self>>
  frame,    \* frame[a]: the locals analyze() has assigned so far, in order
  ret,      \* ret[a]: <<>>, or <<[call, args, value]>> once the call returned
  files,    \* the files of PROFILES_DIR: path under the directory -> JSON document
  handlers, \* the rewrite_draft calls suspended at an await of rewrite_text
  log       \* the responses sent and the generation calls made, in order

analyzers == <<request, pc, obj, frame, ret>>

server == <<files, handlers, log>>

vars == <<request, pc, obj, frame, ret, files, handlers, log>>

(***************************************************************************)
(* Characters and the classes the regular expressions use.                 *)
(***************************************************************************)
UpperSeq == <<"A","B","C","D","E","F","G","H","I","J","K","L","M",
              "N","O","P","Q","R","S","T","U","V","W","X","Y","Z">>

LowerSeq == <<"a","b","c","d","e","f","g","h","i","j","k","l","m",
              "n","o","p","q","r","s","t","u","v","w","x","y","z">>

Range(s) == {s[i] : i \in 1..Len(s)}

Upper == Range(UpperSeq)

Lower == Range(LowerSeq)

Digit == {"0","1","2","3","4","5","6","7","8","9"}

\* \s
Space == {" ", "\n", "\t", "\r"}

\* \w
WordChar == Upper \cup Lower \cup Digit \cup {"_"}

\* The quote characters of the split_sentences lookahead, ["\'].
Quote == {"\"", "'"}

\* [.!?]
Terminal == {".", "!", "?"}

\* [-•*]: hyphen, bullet U+2022, asterisk.
BulletMark == {"-", "U+2022", "*"}

\* [—–]: em dash U+2014, en dash U+2013.
LongDash == {"U+2014", "U+2013"}

\* Code points inside the ranges of EMOJI_PATTERN: one per range.
EmojiChar == {"U+1F600", "U+1F300", "U+1F680", "U+1F1E0", "U+2702", "U+24C2",
              "U+1F900", "U+1FA00", "U+1FA70", "U+200D", "U+FE0F"}

\* str.lower() of one character.
LowerChar(c) ==
  IF c \in Upper THEN LowerSeq[CHOOSE i \in 1..Len(UpperSeq) : UpperSeq[i] = c] ELSE c

\* str.lower()
LowerStr(t) == [i \in 1..Len(t) |-> LowerChar(t[i])]

\* The string literal a character sequence spells.
RECURSIVE Str(_)
Str(t) == IF t = <<>> THEN "" ELSE t[1] \o Str(Tail(t))

\* Concatenation of a sequence of sequences.
RECURSIVE Flatten(_)
Flatten(ss) == IF ss = <<>> THEN <<>> ELSE ss[1] \o Flatten(Tail(ss))

\* sep.join(parts)
RECURSIVE Join(_, _)
Join(parts, sep) ==
  IF parts = <<>> THEN <<>>
  ELSE IF Len(parts) = 1 THEN parts[1]
  ELSE parts[1] \o sep \o Join(Tail(parts), sep)

\* The characters of a literal.
Chars(literal) == [i \in 1..Len(literal) |-> SubSeq(literal, i, i)]

Min(a, b) == IF a <= b THEN a ELSE b

Max(a, b) == IF a >= b THEN a ELSE b

MinOf(S) == CHOOSE k \in S : \A m \in S : k <= m

MaxOf(S) == CHOOSE k \in S : \A m \in S : k >= m

\* The members of a set of integers between lo and hi, in increasing order.
RECURSIVE Ascending(_, _, _)
Ascending(S, lo, hi) ==
  IF lo > hi THEN <<>>
  ELSE IF lo = hi THEN (IF lo \in S THEN <<lo>> ELSE <<>>)
  ELSE LET mid == (lo + hi) \div 2
       IN Ascending(S, lo, mid) \o Ascending(S, mid + 1, hi)

\* The elements of a sequence whose index satisfies Test, in order.
SelectIdx(s, Test(_)) ==
  LET idx == Ascending({i \in 1..Len(s) : Test(i)}, 1, Len(s))
  IN [k \in 1..Len(idx) |-> s[idx[k]]]

\* s[:n] for n >= 0
Take(s, n) == SubSeq(s, 1, Min(n, Len(s)))

\* str.strip()
Strip(t) ==
  LET keep == {i \in 1..Len(t) : t[i] \notin Space}
  IN IF keep = {} THEN <<>> ELSE SubSeq(t, MinOf(keep), MaxOf(keep))

\* str.rstrip()
RStrip(t) ==
  LET keep == {i \in 1..Len(t) : t[i] \notin Space}
  IN IF keep = {} THEN <<>> ELSE SubSeq(t, 1, MaxOf(keep))

\* re.sub(r'\s+', ' ', text): every maximal whitespace run becomes one space.
CollapseSpace(t) ==
  LET kept == SelectIdx(t, LAMBDA i : ~(t[i] \in Space /\ i > 1 /\ t[i-1] \in Space))
  IN [i \in 1..Len(kept) |-> IF kept[i] \in Space THEN " " ELSE kept[i]]

\* The pieces of t between the cut positions: cuts is a set of <<first, last>>
\* index pairs of the separators matched, disjoint, and the pieces are what
\* lies between them (re.split without capture groups).
RECURSIVE PiecesFrom(_, _, _)
PiecesFrom(t, from, cuts) ==
  LET later == {c \in cuts : c[1] >= from}
  IN IF later = {} THEN <<SubSeq(t, from, Len(t))>>
     ELSE LET c == CHOOSE x \in later : \A d \in later : x[1] <= d[1]
          IN <<SubSeq(t, from, c[1] - 1)>> \o PiecesFrom(t, c[2] + 1, cuts \ {c})

(***************************************************************************)
(* Segmentation: split_sentences, split_paragraphs, count_words,           *)
(* get_words, extract_ngrams.                                              *)
(***************************************************************************)

\* The separators with a cut before any letter or digit as well.
SentenceCutsAnyCase(n) ==
  {<<i, i>> : i \in {j \in 2..(Len(n) - 1) :
                       /\ n[j] \in Space
                       /\ n[j-1] \in Terminal
                       /\ n[j+1] \in WordChar \cup Quote}}
  \cup (IF Len(n) > 0 /\ n[Len(n)] \in Terminal THEN {<<Len(n) + 1, Len(n)>>} ELSE {})

\* The separators re.split finds in the normalised text n: a space between a
\* terminal mark and an uppercase letter or quote, and the empty match at the
\* end of a text that ends in a terminal mark.
SentenceCuts(n) ==
  {<<i, i>> : i \in {j \in 2..(Len(n) - 1) :
                       /\ n[j] \in Space
                       /\ n[j-1] \in Terminal
                       /\ n[j+1] \in Upper \cup Quote}}
  \cup (IF Len(n) > 0 /\ n[Len(n)] \in Terminal THEN {<<Len(n) + 1, Len(n)>>} ELSE {})

\* split_sentences without its filter of empty and one-character fragments.
split_sentences_unfiltered(text) ==
  LET n == Strip(CollapseSpace(text))
  IN PiecesFrom(n, 1, SentenceCuts(n))

split_sentences(text) ==
  LET n      == Strip(CollapseSpace(text))
      pieces == PiecesFrom(n, 1, SentenceCuts(n))
      kept   == SelectIdx(pieces, LAMBDA i : Len(Strip(pieces[i])) > 1)
  IN [i \in 1..Len(kept) |-> Strip(kept[i])]

\* The last index of the whitespace run that starts right after position i.
SpaceRunEnd(t, i) ==
  LET stop == {k \in (i+1)..Len(t) : t[k] \notin Space}
  IN IF stop = {} THEN Len(t) ELSE MinOf(stop) - 1

\* The separators of r'\n\s*\n|\n(?=\s*[-•*])', scanning from position from:
\* at the next newline i, the first alternative takes the whitespace that
\* follows up to its last newline; failing that, the second takes the newline
\* alone when a bullet mark follows the whitespace.
RECURSIVE ParagraphCuts(_, _)
ParagraphCuts(t, from) ==
  LET newlines == {k \in from..Len(t) : t[k] = "\n"}
  IN IF newlines = {} THEN {}
     ELSE LET i  == MinOf(newlines)
              e  == SpaceRunEnd(t, i)
              nl == {k \in (i+1)..e : t[k] = "\n"}
          IN IF nl # {}
             THEN {<<i, MaxOf(nl)>>} \cup ParagraphCuts(t, MaxOf(nl) + 1)
             ELSE IF e + 1 <= Len(t) /\ t[e+1] \in BulletMark
                  THEN {<<i, i>>} \cup ParagraphCuts(t, i + 1)
                  ELSE ParagraphCuts(t, i + 1)

split_paragraphs(text) ==
  LET pieces == PiecesFrom(text, 1, ParagraphCuts(text, 1))
      kept   == SelectIdx(pieces, LAMBDA i : Strip(pieces[i]) # <<>>)
  IN [i \in 1..Len(kept) |-> Strip(kept[i])]

\* re.findall(r'\b\w+\b', text): the maximal runs of word characters.
WordRuns(text) ==
  LET starts == {i \in 1..Len(text) :
                   text[i] \in WordChar /\ (i = 1 \/ text[i-1] \notin WordChar)}
      EndOf(i) == LET stop == {k \in i..Len(text) : text[k] \notin WordChar}
                  IN IF stop = {} THEN Len(text) ELSE MinOf(stop) - 1
      first == Ascending(starts, 1, Len(text))
  IN [k \in 1..Len(first) |-> SubSeq(text, first[k], EndOf(first[k]))]

count_words(text) == Len(WordRuns(text))

get_words(text) ==
  LET runs == WordRuns(text) IN [i \in 1..Len(runs) |-> LowerStr(runs[i])]

\* [tuple(words[i:i+n]) for i in range(len(words) - n + 1)]
extract_ngrams(words, n) ==
  IF Len(words) - n + 1 <= 0 THEN <<>>
  ELSE [i \in 1..(Len(words) - n + 1) |-> SubSeq(words, i, i + n - 1)]

(***************************************************************************)
(* Arithmetic of the metrics.                                              *)
(***************************************************************************)

RECURSIVE SumSeq(_)
SumSeq(s) == IF s = <<>> THEN 0 ELSE s[1] + SumSeq(Tail(s))

\* len([x for x in s if Test(x)])
CountIf(s, Test(_)) == Cardinality({i \in 1..Len(s) : Test(s[i])})

\* round(p / q * scale, 0) for p >= 0, q > 0: Python's round, which rounds a
\* tie to the even neighbour.
RoundDiv(p, q, scale) ==
  LET n   == p * scale
      fl  == n \div q
      rem == n % q
  IN IF 2 * rem < q THEN fl
     ELSE IF 2 * rem > q THEN fl + 1
     ELSE IF fl % 2 = 0 THEN fl ELSE fl + 1

\* floor(sqrt(x)), by bisection on lo <= sqrt(x) < hi.
RECURSIVE ISqrtIn(_, _, _)
ISqrtIn(x, lo, hi) ==
  IF hi - lo <= 1 THEN lo
  ELSE LET mid == (lo + hi) \div 2
       IN IF mid * mid <= x THEN ISqrtIn(x, mid, hi) ELSE ISqrtIn(x, lo, mid)

\* 46341 is the least integer whose square exceeds a 32-bit integer.
ISqrt(x) == ISqrtIn(x, 0, Min(x + 1, 46341))

\* n * n * (population variance of xs), n = len(xs): n * sum(x^2) - sum(x)^2.
VarNumer(xs) ==
  Len(xs) * SumSeq([i \in 1..Len(xs) |-> xs[i] * xs[i]]) - SumSeq(xs) * SumSeq(xs)

\* round(float(np.mean(xs)), 2), in hundredths.
MeanHundredths(xs) == RoundDiv(SumSeq(xs), Len(xs), 100)

\* round(float(np.std(xs)), 2), in hundredths: the integer r nearest to
\* 100 * sqrt(VarNumer) / n, that is (2r-1) n <= sqrt(40000 * VarNumer) < (2r+1) n.
StdHundredths(xs) ==
  (ISqrt(40000 * VarNumer(xs)) + Len(xs)) \div (2 * Len(xs))

(***************************************************************************)
(* The module's tables.                                                    *)
(***************************************************************************)
COMMON_WORDS ==
  {"the", "a", "an", "is", "are", "was", "were", "be", "been", "being",
   "have", "has", "had", "do", "does", "did", "will", "would", "could",
   "should", "may", "might", "shall", "can", "need", "dare", "ought",
   "used", "to", "of", "in", "for", "on", "with", "at", "by", "from",
   "as", "into", "through", "during", "before", "after", "above", "below",
   "between", "out", "off", "over", "under", "again", "further", "then",
   "once", "here", "there", "when", "where", "why", "how", "all", "both",
   "each", "few", "more", "most", "other", "some", "such", "no", "nor",
   "not", "only", "own", "same", "so", "than", "too", "very", "just",
   "don", "now", "and", "but", "or", "if", "while", "that",
   "this", "these", "those", "it", "its", "i", "me", "my", "myself",
   "we", "our", "ours", "you", "your", "yours", "he", "him", "his",
   "she", "her", "hers", "they", "them", "their", "what", "which",
   "who", "whom", "about", "up", "like", "get", "got", "make", "go",
   "going", "know", "think", "see", "come", "want", "look", "use",
   "find", "give", "tell", "say", "said", "also", "well", "back",
   "even", "still", "way", "take", "thing", "things", "much", "because",
   "good", "new", "first", "last", "long", "great", "little", "right",
   "old", "big", "high", "different", "small", "large", "next", "early",
   "young", "important", "people", "time", "year", "day", "man", "woman",
   "child", "world", "life", "hand", "part", "place", "case", "week",
   "company", "system", "program", "question", "work", "point", "number",
   "let", "something", "really", "many", "every", "one", "two", "three",
   "anything", "nothing", "everything", "someone", "anyone", "everyone",
   "am", "s", "t", "re", "ve", "ll", "d", "m",
   "don't", "doesn't", "didn't", "won't", "wouldn't", "couldn't",
   "shouldn't", "isn't", "aren't", "wasn't", "weren't", "haven't",
   "hasn't", "hadn't", "can't", "it's", "that's", "there's"}

\* The alternatives of the CONTRACTIONS pattern.
CONTRACTIONS ==
  {"i'm", "i've", "i'll", "i'd", "you're", "you've", "you'll", "you'd",
   "he's", "she's", "it's", "we're", "we've", "we'll", "we'd",
   "they're", "they've", "they'll", "they'd",
   "that's", "there's", "here's", "what's", "who's", "how's", "where's", "when's",
   "isn't", "aren't", "wasn't", "weren't", "hasn't", "haven't", "hadn't",
   "doesn't", "don't", "didn't", "won't", "wouldn't", "shan't", "shouldn't",
   "can't", "couldn't", "mustn't", "let's", "gonna", "wanna", "gotta"}

\* The lengths of the alternatives of CONTRACTIONS: "i'm" .. "shouldn't".
ContractionLengths == 3..9

(***************************************************************************)
(* Counting the matches of a pattern: re.findall scans left to right and   *)
(* resumes after each match.  MatchEnd(i) is the last index of the match   *)
(* that starts at i, or 0 when none starts there.                          *)
(***************************************************************************)
RECURSIVE CountFrom(_, _)
CountFrom(ends, from) ==
  LET hits == {i \in from..Len(ends) : ends[i] # 0}
  IN IF hits = {} THEN 0 ELSE 1 + CountFrom(ends, ends[MinOf(hits)] + 1)

CountMatches(t, MatchEnd(_)) == CountFrom([i \in 1..Len(t) |-> MatchEnd(i)], 1)

IsBoundaryBefore(t, i) == i = 1 \/ t[i-1] \notin WordChar

IsBoundaryAfter(t, j) == j = Len(t) \/ t[j+1] \notin WordChar

\* CONTRACTIONS.findall(t): every alternative starts and ends with a letter.
ContractionEnd(t, i) ==
  LET ks == {k \in ContractionLengths :
               /\ i + k - 1 <= Len(t)
               /\ Str(SubSeq(t, i, i + k - 1)) \in CONTRACTIONS
               /\ IsBoundaryAfter(t, i + k - 1)}
  IN IF IsBoundaryBefore(t, i) /\ ks # {} THEN i + (CHOOSE k \in ks : TRUE) - 1 ELSE 0

\* EMOJI_PATTERN: a maximal run of emoji code points.
EmojiEnd(t, i) ==
  IF t[i] \notin EmojiChar THEN 0
  ELSE LET stop == {k \in i..Len(t) : t[k] \notin EmojiChar}
       IN IF stop = {} THEN Len(t) ELSE MinOf(stop) - 1

\* r'\.{3}|…'
EllipsisEnd(t, i) ==
  IF i + 2 <= Len(t) /\ t[i] = "." /\ t[i+1] = "." /\ t[i+2] = "." THEN i + 2
  ELSE IF t[i] = "U+2026" THEN i
  ELSE 0

\* r'[—–]|\s-\s'
DashEnd(t, i) ==
  IF t[i] \in LongDash THEN i
  ELSE IF i + 2 <= Len(t) /\ t[i] \in Space /\ t[i+1] = "-" /\ t[i+2] \in Space THEN i + 2
  ELSE 0

\* r'\([^)]+\)'
ParenEnd(t, i) ==
  IF t[i] # "(" THEN 0
  ELSE LET close == {k \in (i+1)..Len(t) : t[k] = ")"}
       IN IF close = {} THEN 0
          ELSE IF MinOf(close) >= i + 2 THEN MinOf(close) ELSE 0

(***************************************************************************)
(* StyleAnalyzer.  self is the record of the object's attributes:          *)
(* samples, combined_text, all_sentences, all_paragraphs, all_words.       *)
(* Metrics: *_ratio, *_frequency, vocabulary_richness and                  *)
(* opens_with_short_sentence are in thousandths (round(x, 3)); avg_* and   *)
(* sentence_length_std are in hundredths (round(x, 2)).                    *)
(***************************************************************************)

\* text.split(sep) for a one-character separator.
SplitOn(t, sep) == PiecesFrom(t, 1, {<<i, i>> : i \in {j \in 1..Len(t) : t[j] = sep}})

\* __init__ with all_words a list shared by every instance (a class attribute):
\* the new analyzer's words follow those of the analyzers built before it.
NewAnalyzerSharedWords(samples) ==
  LET built == Ascending({a \in DOMAIN obj : obj[a] # <<>>}, 1, 2)
  IN [samples        |-> samples,
      combined_text  |-> Join(samples, <<"\n", "\n">>),
      all_sentences  |-> Flatten([i \in 1..Len(samples) |-> split_sentences(samples[i])]),
      all_paragraphs |-> Flatten([i \in 1..Len(samples) |-> split_paragraphs(samples[i])]),
      all_words      |-> Flatten([k \in 1..Len(built) |-> obj[built[k]][1].all_words])
                         \o Flatten([i \in 1..Len(samples) |-> get_words(samples[i])])]

\* __init__: the attributes built from the samples.
NewAnalyzer(samples) ==
  [samples        |-> samples,
   combined_text  |-> Join(samples, <<"\n", "\n">>),
   all_sentences  |-> Flatten([i \in 1..Len(samples) |-> split_sentences(samples[i])]),
   all_paragraphs |-> Flatten([i \in 1..Len(samples) |-> split_paragraphs(samples[i])]),
   all_words      |-> Flatten([i \in 1..Len(samples) |-> get_words(samples[i])])]

SentenceLengths(self) ==
  [i \in 1..Len(self.all_sentences) |-> count_words(self.all_sentences[i])]

analyze_sentence_structure(self) ==
  IF self.all_sentences = <<>>
  THEN [avg_sentence_length  |-> 0,
        sentence_length_std  |-> 0,
        short_sentence_ratio |-> 0,
        long_sentence_ratio  |-> 0]
  ELSE LET lengths == SentenceLengths(self)
       IN [avg_sentence_length  |-> MeanHundredths(lengths),
           sentence_length_std  |-> StdHundredths(lengths),
           short_sentence_ratio |->
             RoundDiv(CountIf(lengths, LAMBDA l : l <= 5), Len(lengths), 1000),
           long_sentence_ratio  |->
             RoundDiv(CountIf(lengths, LAMBDA l : l >= 20), Len(lengths), 1000)]

\* s.rstrip().endswith(c)
EndsWith(s, c) == LET r == RStrip(s) IN r # <<>> /\ r[Len(r)] = c

\* The ratios of the sentences that hold a '?' or a '!' anywhere.
analyze_questions_hooks_anywhere(self) ==
  IF self.all_sentences = <<>> THEN [question_ratio |-> 0, exclamation_ratio |-> 0]
  ELSE LET total == Len(self.all_sentences)
           Holding(c) == Cardinality({i \in 1..total : c \in Range(self.all_sentences[i])})
       IN [question_ratio    |-> RoundDiv(Holding("?") * 1000, total, 1),
           exclamation_ratio |-> RoundDiv(Holding("!") * 1000, total, 1)]

analyze_questions_hooks(self) ==
  IF self.all_sentences = <<>>
  THEN [question_ratio |-> 0, exclamation_ratio |-> 0]
  ELSE LET total == Len(self.all_sentences)
       IN [question_ratio    |->
             RoundDiv(CountIf(self.all_sentences, LAMBDA s : EndsWith(s, "?")), total, 1000),
           exclamation_ratio |->
             RoundDiv(CountIf(self.all_sentences, LAMBDA s : EndsWith(s, "!")), total, 1000)]

\* The first pattern alone: bullet marks, no numbered markers.
IsBulletLineMarksOnly(line) ==
  LET l == Strip(line)
  IN Len(l) >= 2 /\ l[1] \in BulletMark /\ l[2] \in Space

\* re.match(r'^\s*[-•*]\s', l) or re.match(r'^\s*\d+[.)]\s', l), l = line.strip()
IsBulletLine(line) ==
  LET l     == Strip(line)
      e     == SpaceRunEnd(l, 0)
      first == e + 1
      nondigit == {k \in first..Len(l) : l[k] \notin Digit}
      afterNum == IF nondigit = {} THEN Len(l) + 1 ELSE MinOf(nondigit)
  IN \/ /\ first + 1 <= Len(l)
        /\ l[first] \in BulletMark
        /\ l[first + 1] \in Space
     \/ /\ afterNum > first
        /\ afterNum + 1 <= Len(l)
        /\ l[afterNum] \in {".", ")"}
        /\ l[afterNum + 1] \in Space

analyze_formatting(self) ==
  IF self.all_paragraphs = <<>>
  THEN [avg_paragraph_length |-> 0,
        uses_bullet_points   |-> FALSE,
        bullet_frequency     |-> 0]
  ELSE LET para_lengths == [i \in 1..Len(self.all_paragraphs) |->
                              Len(split_sentences(self.all_paragraphs[i]))]
           lines        == SplitOn(self.combined_text, "\n")
           bullet_lines == CountIf(lines, IsBulletLine)
           total_lines  == Max(Len(lines), 1)
       IN [avg_paragraph_length |-> MeanHundredths(para_lengths),
           uses_bullet_points   |-> bullet_lines > 0,
           bullet_frequency     |-> RoundDiv(bullet_lines, total_lines, 1000)]

\* analyze_vocabulary with the contractions divided by the number of unique
\* words instead of the number of words.
analyze_vocabulary_per_unique(self) ==
  IF self.all_words = <<>>
  THEN [vocabulary_richness |-> 0,
        avg_word_length     |-> 0,
        contraction_ratio   |-> 0]
  ELSE LET lowered == LowerStr(self.combined_text)
           contraction_matches ==
             CountMatches(lowered, LAMBDA i : ContractionEnd(lowered, i))
       IN [vocabulary_richness |->
             RoundDiv(Cardinality(Range(self.all_words)), Len(self.all_words), 1000),
           avg_word_length     |->
             MeanHundredths([i \in 1..Len(self.all_words) |-> Len(self.all_words[i])]),
           contraction_ratio   |->
             RoundDiv(contraction_matches, Cardinality(Range(self.all_words)), 1000)]

analyze_vocabulary(self) ==
  IF self.all_words = <<>>
  THEN [vocabulary_richness |-> 0,
        avg_word_length     |-> 0,
        contraction_ratio   |-> 0]
  ELSE LET lowered == LowerStr(self.combined_text)
           contraction_matches ==
             CountMatches(lowered, LAMBDA i : ContractionEnd(lowered, i))
       IN [vocabulary_richness |->
             RoundDiv(Cardinality(Range(self.all_words)), Len(self.all_words), 1000),
           avg_word_length     |->
             MeanHundredths([i \in 1..Len(self.all_words) |-> Len(self.all_words[i])]),
           contraction_ratio   |->
             RoundDiv(contraction_matches, Max(Len(self.all_words), 1), 1000)]

analyze_punctuation_emoji(self) ==
  LET total_words     == Max(Len(self.all_words), 1)
      total_sentences == Max(Len(self.all_sentences), 1)
      t               == self.combined_text
      emoji_matches   == CountMatches(t, LAMBDA i : EmojiEnd(t, i))
      ellipsis_count  == CountMatches(t, LAMBDA i : EllipsisEnd(t, i))
      dash_count      == CountMatches(t, LAMBDA i : DashEnd(t, i))
      paren_count     == CountMatches(t, LAMBDA i : ParenEnd(t, i))
  IN [emoji_frequency         |-> RoundDiv(emoji_matches * 100, total_words, 1000),
      ellipsis_frequency      |-> RoundDiv(ellipsis_count * 100, total_sentences, 1000),
      dash_frequency          |-> RoundDiv(dash_count * 100, total_words, 1000),
      parenthetical_frequency |-> RoundDiv(paren_count * 100, total_sentences, 1000)]

\* cv = np.std(lengths) / max(np.mean(lengths), 1) against a threshold
\* num / den, compared exactly: with n = len(lengths) and d = max(sum, n),
\* cv = sqrt(VarNumer) / d, and cv > num / den iff den^2 VarNumer > num^2 d^2.
CvExceeds(lengths, num, den) ==
  LET d == Max(SumSeq(lengths), Len(lengths))
  IN den * den * VarNumer(lengths) > num * num * d * d

analyze_rhythm(self) ==
  IF self.all_paragraphs = <<>>
  THEN [opens_with_short_sentence |-> 0,
        sentence_length_variation |-> "low"]
  ELSE LET IsShortOpener(para) ==
             LET sentences == split_sentences(para)
             IN sentences # <<>> /\ count_words(sentences[1]) <= 6
           short_openers == CountIf(self.all_paragraphs, IsShortOpener)
           lengths       == SentenceLengths(self)
           variation     ==
             IF Len(self.all_sentences) >= 2
             THEN IF CvExceeds(lengths, 7, 10) THEN "high"
                  ELSE IF CvExceeds(lengths, 4, 10) THEN "medium"
                  ELSE "low"
             ELSE "low"
       IN [opens_with_short_sentence |->
             RoundDiv(short_openers, Max(Len(self.all_paragraphs), 1), 1000),
           sentence_length_variation |-> variation]

(***************************************************************************)
(* collections.Counter.  A Counter keeps its keys in the order of their    *)
(* first occurrence; most_common(k) is the first k keys of the stable sort *)
(* by descending count, so keys of equal count stay in that order.         *)
(***************************************************************************)
CountOf(items, x) == Cardinality({i \in 1..Len(items) : items[i] = x})

\* The keys of Counter(items), in insertion order.
CounterKeys(items) ==
  SelectIdx(items, LAMBDA i : \A j \in 1..(i-1) : items[j] # items[i])

\* Counter(items).most_common(k)
most_common(items, k) ==
  LET keys == CounterKeys(items)
      cnt  == [i \in 1..Len(keys) |-> CountOf(items, keys[i])]
      Before(j, i) == cnt[j] > cnt[i] \/ (cnt[j] = cnt[i] /\ j < i)
      pos  == [i \in 1..Len(keys) |-> 1 + Cardinality({j \in 1..Len(keys) : Before(j, i)})]
      sorted == [r \in 1..Len(keys) |-> keys[CHOOSE i \in 1..Len(keys) : pos[i] = r]]
  IN Take(sorted, k)

\* The cut-offs passed to most_common by the miners.
MostCommonNgrams == 50

MostCommonWords == 200

MostCommonStarters == 30

\* any(...) in the place of all(...): an n-gram with one stop word is dropped.
AnyCommon(ngram) == \E i \in 1..Len(ngram) : Str(ngram[i]) \in COMMON_WORDS

\* all(w in COMMON_WORDS for w in ngram)
AllCommon(ngram) == \A i \in 1..Len(ngram) : Str(ngram[i]) \in COMMON_WORDS

\* The n-grams of the corpus taken as one run of words (self.all_words).
CollectNgramsAcross(samples, n) ==
  extract_ngrams(Flatten([i \in 1..Len(samples) |-> get_words(samples[i])]), n)

\* The n-grams extract_signature_phrases collects: sample by sample.
CollectNgrams(samples, n) ==
  Flatten([i \in 1..Len(samples) |-> extract_ngrams(get_words(samples[i]), n)])

\* " ".join(ngram)
JoinWords(ngram) == Join(ngram, <<" ">>)

\* The trigram loop: ranked is most_common(50), visited from position i with
\* the phrases accepted so far.
RECURSIVE TrigramLoop(_, _, _, _, _)
TrigramLoop(ranked, all, i, phrases, top_n) ==
  IF i > Len(ranked) THEN phrases
  ELSE IF CountOf(all, ranked[i]) >= 2 /\ ~AllCommon(ranked[i])
       THEN LET next == Append(phrases, JoinWords(ranked[i]))
            IN IF Len(next) >= top_n \div 2 THEN next
               ELSE TrigramLoop(ranked, all, i + 1, next, top_n)
       ELSE TrigramLoop(ranked, all, i + 1, phrases, top_n)

\* The bigram loop, which goes on from the phrases the trigram loop accepted.
RECURSIVE BigramLoop(_, _, _, _, _)
BigramLoop(ranked, all, i, phrases, top_n) ==
  IF i > Len(ranked) THEN phrases
  ELSE IF CountOf(all, ranked[i]) >= 2 /\ ~AllCommon(ranked[i])
       THEN LET phrase == JoinWords(ranked[i])
                next   == IF phrase \notin Range(phrases)
                          THEN Append(phrases, phrase) ELSE phrases
            IN IF Len(next) >= top_n THEN next
               ELSE BigramLoop(ranked, all, i + 1, next, top_n)
       ELSE BigramLoop(ranked, all, i + 1, phrases, top_n)

\* top_n >= 0
extract_signature_phrases(self, top_n) ==
  LET all_bigrams  == CollectNgrams(self.samples, 2)
      all_trigrams == CollectNgrams(self.samples, 3)
      trigrams == TrigramLoop(most_common(all_trigrams, MostCommonNgrams),
                              all_trigrams, 1, <<>>, top_n)
      phrases  == BigramLoop(most_common(all_bigrams, MostCommonNgrams),
                             all_bigrams, 1, trigrams, top_n)
  IN Take(phrases, top_n)

\* word.isdigit()
IsDigitWord(word) == word # <<>> /\ \A i \in 1..Len(word) : word[i] \in Digit

RECURSIVE VocabularyLoop(_, _, _, _, _)
VocabularyLoop(ranked, all, i, distinctive, top_n) ==
  IF i > Len(ranked) THEN distinctive
  ELSE LET word == ranked[i]
           next == IF /\ Str(word) \notin COMMON_WORDS
                      /\ Len(word) > 2
                      /\ CountOf(all, word) >= 2
                      /\ ~IsDigitWord(word)
                   THEN Append(distinctive, word) ELSE distinctive
       IN IF Len(next) >= top_n THEN next
          ELSE VocabularyLoop(ranked, all, i + 1, next, top_n)

extract_vocabulary_preferences(self, top_n) ==
  VocabularyLoop(most_common(self.all_words, MostCommonWords),
                 self.all_words, 1, <<>>, top_n)

\* sentence.split(): the maximal runs of non-whitespace characters.
SplitWhitespace(t) ==
  LET starts == {i \in 1..Len(t) : t[i] \notin Space /\ (i = 1 \/ t[i-1] \in Space)}
      EndOf(i) == LET stop == {k \in i..Len(t) : t[k] \in Space}
                  IN IF stop = {} THEN Len(t) ELSE MinOf(stop) - 1
      first == Ascending(starts, 1, Len(t))
  IN [k \in 1..Len(first) |-> SubSeq(t, first[k], EndOf(first[k]))]

\* The starter of every sentence that has one.
Starters(sentences) ==
  LET StarterOf(sentence) ==
        LET words == SplitWhitespace(sentence)
        IN IF Len(words) >= 2 THEN LowerStr(JoinWords(SubSeq(words, 1, 2)))
           ELSE LowerStr(words[1])
      with == SelectIdx(sentences, LAMBDA i : SplitWhitespace(sentences[i]) # <<>>)
  IN [i \in 1..Len(with) |-> StarterOf(with[i])]

generic_starters == {"the", "a", "an", "it is", "there is", "there are"}

RECURSIVE StarterLoop(_, _, _, _, _)
StarterLoop(ranked, all, i, result, top_n) ==
  IF i > Len(ranked) THEN result
  ELSE LET starter == ranked[i]
           next == IF CountOf(all, starter) >= 2 /\ Str(starter) \notin generic_starters
                   THEN Append(result, starter) ELSE result
       IN IF Len(next) >= top_n THEN next
          ELSE StarterLoop(ranked, all, i + 1, next, top_n)

extract_sentence_starters(self, top_n) ==
  LET starters == Starters(self.all_sentences)
  IN StarterLoop(most_common(starters, MostCommonStarters), starters, 1, <<>>, top_n)

transition_candidates ==
  <<"however", "but", "so", "and", "yet", "still", "also", "moreover",
    "furthermore", "meanwhile", "instead", "rather", "although", "though",
    "because", "since", "therefore", "thus", "hence", "consequently",
    "nevertheless", "nonetheless", "besides", "anyway", "actually",
    "basically", "honestly", "frankly", "literally", "obviously",
    "clearly", "simply", "essentially", "ultimately", "finally",
    "look", "listen", "here's the thing", "the truth is", "the point is",
    "in fact", "for example", "for instance">>

\* The candidates found, left in the order of the candidate list.
extract_transition_words_unsorted(self, top_n) ==
  LET keys  == CounterKeys(self.all_words)
      found == SelectIdx(keys, LAMBDA i : \E j \in 1..Len(transition_candidates) :
                                            transition_candidates[j] = Str(keys[i]))
      At(c) == CHOOSE j \in 1..Len(transition_candidates) : transition_candidates[j] = Str(c)
      pos   == [i \in 1..Len(found) |->
                  1 + Cardinality({j \in 1..Len(found) : At(found[j]) < At(found[i])})]
  IN Take([r \in 1..Len(found) |-> found[CHOOSE i \in 1..Len(found) : pos[i] = r]], top_n)

\* found.sort(key=lambda x: x[1], reverse=True): a stable sort, so candidates
\* of equal count stay in the order of the candidate list.  A candidate is
\* found when it is a key of Counter(self.all_words); the entry returned is
\* that key.
extract_transition_words(self, top_n) ==
  LET keys   == CounterKeys(self.all_words)
      KeyOf(c) == {i \in 1..Len(keys) : Str(keys[i]) = c}
      found  == SelectIdx(transition_candidates,
                          LAMBDA i : KeyOf(transition_candidates[i]) # {})
      word   == [i \in 1..Len(found) |-> keys[CHOOSE k \in KeyOf(found[i]) : TRUE]]
      cnt    == [i \in 1..Len(found) |-> CountOf(self.all_words, word[i])]
      Before(j, i) == cnt[j] > cnt[i] \/ (cnt[j] = cnt[i] /\ j < i)
      pos    == [i \in 1..Len(found) |-> 1 + Cardinality({j \in 1..Len(found) : Before(j, i)})]
      sorted == [r \in 1..Len(found) |-> word[CHOOSE i \in 1..Len(found) : pos[i] = r]]
  IN Take(sorted, top_n)

(***************************************************************************)
(* The describers.  Their prose is assembled from literal clauses, so it   *)
(* is kept as a string: ". ".join(parts) + ".".                            *)
(***************************************************************************)
RECURSIVE JoinClauses(_)
JoinClauses(parts) ==
  IF parts = <<>> THEN ""
  ELSE IF Len(parts) = 1 THEN parts[1]
  ELSE parts[1] \o ". " \o JoinClauses(Tail(parts))

\* The clause a rule appends: one, or none.
Clause(cond, text) == IF cond THEN <<text>> ELSE <<>>

\* The parts list of describe_formatting_style.
FormattingParts(self) ==
  LET formatting    == analyze_formatting(self)
      sentence_info == analyze_sentence_structure(self)
      avg_para      == formatting.avg_paragraph_length
  IN   (IF avg_para <= 200 THEN <<"Uses very short paragraphs (1-2 sentences)">>
        ELSE IF avg_para <= 400 THEN <<"Uses moderate-length paragraphs (3-4 sentences)">>
        ELSE <<"Uses longer paragraphs (5+ sentences)">>)
    \o (IF formatting.uses_bullet_points
        THEN IF formatting.bullet_frequency > 200
             THEN <<"Heavy use of bullet points and lists">>
             ELSE <<"Occasional use of bullet points">>
        ELSE <<"Rarely or never uses bullet points">>)
    \o Clause(sentence_info.short_sentence_ratio > 300,
              "Frequently uses punchy, short sentences for emphasis")
    \o Clause(sentence_info.long_sentence_ratio > 200,
              "Includes longer, detailed sentences")

\* The description with the bullet clause ahead of the paragraph clause.
describe_formatting_style_bullets_first(self) ==
  LET parts == FormattingParts(self)
  IN JoinClauses(<<parts[2], parts[1]>> \o SubSeq(parts, 3, Len(parts))) \o "."

describe_formatting_style(self) == JoinClauses(FormattingParts(self)) \o "."

\* The loop with a sentence over the budget passed over, and the loop going on.
RECURSIVE ExcerptLoopSkipping(_, _, _, _)
ExcerptLoopSkipping(sentences, i, excerpt, max_length) ==
  IF i > Len(sentences) THEN excerpt
  ELSE IF Len(excerpt) + Len(sentences[i]) <= max_length
       THEN ExcerptLoopSkipping(sentences, i + 1, excerpt \o sentences[i] \o <<" ">>, max_length)
       ELSE ExcerptLoopSkipping(sentences, i + 1, excerpt, max_length)

\* excerpt after the loop over sentences[:3], from sentence i on.
RECURSIVE ExcerptLoop(_, _, _, _)
ExcerptLoop(sentences, i, excerpt, max_length) ==
  IF i > Len(sentences) THEN excerpt
  ELSE IF Len(excerpt) + Len(sentences[i]) <= max_length
       THEN ExcerptLoop(sentences, i + 1, excerpt \o sentences[i] \o <<" ">>, max_length)
       ELSE excerpt

\* count >= 0
extract_sample_excerpts(self, count, max_length) ==
  LET ExcerptOf(sample) ==
        Strip(ExcerptLoop(Take(split_sentences(sample), 3), 1, <<>>, max_length))
      all  == [i \in 1..Len(self.samples) |-> ExcerptOf(self.samples[i])]
      kept == SelectIdx(all, LAMBDA i : all[i] # <<>>)
  IN Take(kept, count)

\* The summary_parts list of generate_style_summary.
SummaryParts(self) ==
  LET metrics_sent   == analyze_sentence_structure(self)
      metrics_q      == analyze_questions_hooks(self)
      metrics_fmt    == analyze_formatting(self)
      metrics_vocab  == analyze_vocabulary(self)
      metrics_punct  == analyze_punctuation_emoji(self)
      metrics_rhythm == analyze_rhythm(self)
      avg_len        == metrics_sent.avg_sentence_length
      variation      == metrics_rhythm.sentence_length_variation
  IN   (IF avg_len < 1000 THEN <<"This writer uses notably short, punchy sentences">>
        ELSE IF avg_len < 1500 THEN <<"This writer uses moderate-length sentences">>
        ELSE <<"This writer tends toward longer, more detailed sentences">>)
    \o (IF variation = "high"
        THEN <<"with high variation between short and long sentences, creating a dynamic rhythm">>
        ELSE IF variation = "medium"
        THEN <<"with moderate variation in sentence length">>
        ELSE <<"with consistent sentence lengths throughout">>)
    \o (IF metrics_q.question_ratio > 150
        THEN <<"They frequently use rhetorical questions to engage readers">>
        ELSE Clause(metrics_q.question_ratio > 50, "They occasionally use questions"))
    \o Clause(metrics_q.exclamation_ratio > 100,
              "Exclamation marks are used liberally for emphasis and energy")
    \o (IF metrics_vocab.vocabulary_richness > 600
        THEN <<"The vocabulary is rich and varied">>
        ELSE Clause(metrics_vocab.vocabulary_richness < 400,
                    "The vocabulary is focused and repetitive (which creates familiarity)"))
    \o (IF metrics_vocab.contraction_ratio > 30
        THEN <<"Heavy use of contractions gives a conversational, informal tone">>
        ELSE Clause(metrics_vocab.contraction_ratio < 10,
                    "Minimal contractions suggest a more formal tone"))
    \o Clause(metrics_fmt.uses_bullet_points,
              "Bullet points and lists are part of the formatting style")
    \o (IF metrics_punct.emoji_frequency > 500
        THEN <<"Emojis are used frequently as part of the communication style">>
        ELSE Clause(metrics_punct.emoji_frequency > 0, "Emojis are used sparingly"))
    \o Clause(metrics_punct.dash_frequency > 500,
              "Dashes are used frequently for emphasis or asides")
    \o Clause(metrics_rhythm.opens_with_short_sentence > 500,
              "Paragraphs often open with a short, punchy statement")

\* The summary with its clauses joined last to first.
generate_style_summary_reversed(self) ==
  LET parts == SummaryParts(self)
  IN JoinClauses([i \in 1..Len(parts) |-> parts[Len(parts) + 1 - i]]) \o "."

generate_style_summary(self) == JoinClauses(SummaryParts(self)) \o "."

\* The default arguments analyze() leaves to the miners.
DefaultSignatureTopN == 10

DefaultVocabularyTopN == 15

DefaultStarterTopN == 10

DefaultTransitionTopN == 10

DefaultExcerptCount == 5

DefaultExcerptMaxLength == 200

\* {**sentence_metrics, **question_metrics, ...}: the keys are disjoint.
MergeMetrics(s, q, f, v, p, r) ==
  [avg_sentence_length       |-> s.avg_sentence_length,
   sentence_length_std       |-> s.sentence_length_std,
   short_sentence_ratio      |-> s.short_sentence_ratio,
   long_sentence_ratio       |-> s.long_sentence_ratio,
   question_ratio            |-> q.question_ratio,
   exclamation_ratio         |-> q.exclamation_ratio,
   avg_paragraph_length      |-> f.avg_paragraph_length,
   uses_bullet_points        |-> f.uses_bullet_points,
   bullet_frequency          |-> f.bullet_frequency,
   vocabulary_richness       |-> v.vocabulary_richness,
   avg_word_length           |-> v.avg_word_length,
   contraction_ratio         |-> v.contraction_ratio,
   emoji_frequency           |-> p.emoji_frequency,
   ellipsis_frequency        |-> p.ellipsis_frequency,
   dash_frequency            |-> p.dash_frequency,
   parenthetical_frequency   |-> p.parenthetical_frequency,
   opens_with_short_sentence |-> r.opens_with_short_sentence,
   sentence_length_variation |-> r.sentence_length_variation]

(***************************************************************************)
(* The state machine.  An analyzer is built from a caller's samples        *)
(* (__init__) and then serves one call: analyze(), which runs its thirteen *)
(* sub-calls in order and returns the profile, or one of the miners called *)
(* directly with its arguments.                                            *)
(***************************************************************************)
Analyzers == {1, 2}

\* Inputs.  A corpus is spelled by a sequence of items: an item is a text
\* fragment or the mark that ends one sample and starts the next.
SampleBreak == <<"<next sample>">>

RECURSIVE CorpusOf(_)
CorpusOf(items) ==
  IF items = <<>> THEN << <<>> >>
  ELSE LET rest == CorpusOf(Tail(items))
       IN IF items[1] = SampleBreak THEN << <<>> >> \o rest
          ELSE << items[1] \o rest[1] >> \o Tail(rest)

Corpora(fragments, maxItems) ==
  {CorpusOf(items) :
     items \in UNION {[1..n -> fragments \cup {SampleBreak}] : n \in 0..maxItems}}

\* The most items a corpus is spelled with.
MaxItems == 3

\* The same, for the corpora of recurring phrases.
MaxMineItems == 3

\* The same, when two analyzers run side by side.
MaxPairItems == 1

\* Arguments of the direct calls: top_n and count in 0..MaxTopN.
MaxTopN == 2

\* The same, for the corpora of connectors.
MaxWordItems == 4

\* The same, for the corpora of sentences and lines.
MaxTextItems == 3

\* The same, for the corpora of paragraphs and lists.
MaxFormatItems == 4

ExcerptBudgets == {5, 12, DefaultExcerptMaxLength}

\* Fragments: punctuation, symbols, whitespace and short sentences.
MainFragments ==
  {<<"\n">>, <<"U+1F600">>, <<"U+2014">>, <<"U+2026">>,
   <<"W","h","y","?"," ">>,
   <<"g","o","n","n","a"," ">>,
   <<"-"," ","x","\n">>}

\* Fragments: recurring phrases, words and sentence openings.
MineFragments ==
  {<<"a","t"," ","t","h","e"," ","e","n","d"," ">>,
   <<"b"," ","c"," ","e"," ","f"," ","g"," ","h"," ","j"," ",
     "a","t"," ","t","h","e"," ","e","n","d"," ">>,
   <<"h","e","l","l","o"," ">>}

\* Fragments: connectors of the candidate list, one of them a phrase.
WordFragments ==
  {<<"h","o","w","e","v","e","r"," ">>,
   <<"m","o","r","e","o","v","e","r"," ">>,
   <<"i","n"," ","f","a","c","t"," ">>}

\* Fragments: sentences that open with an uppercase letter, a quote, a bullet
\* or a number, one with a run of spaces before a lowercase letter.
TextFragments ==
  {<<"I"," ","l","o","v","e"," ","t","h","i","s","."," ">>,
   <<"D","o","n","'","t"," ","y","o","u","?"," ">>,
   <<"I","t","'","s"," ","a","m","a","z","i","n","g","!","!">>,
   <<"\"","?"," ","\"">>,
   <<"-"," ","H","i",".","\n">>,
   <<"1","."," "," ","x","\n">>}

\* Fragments: two sentences, a bullet line and a line break.
FormatFragments ==
  {<<"G","o","."," ","G","o","."," ">>,
   <<"-"," ","x","\n">>,
   <<"\n">>}

PairFragments ==
  {<<"W","h","y","?"," ">>, <<"h","e","l","l","o"," ">>}

InitWith(corpora, present) ==
  /\ \E given \in [present -> corpora] :
       request = [a \in Analyzers |-> IF a \in present THEN given[a] ELSE << <<>> >>]
  /\ pc = [a \in Analyzers |-> IF a \in present THEN "new" ELSE "absent"]
  /\ obj = [a \in Analyzers |-> <<>>]
  /\ frame = [a \in Analyzers |-> <<>>]
  /\ ret = [a \in Analyzers |-> <<>>]
  /\ files = <<>>
  /\ handlers = {}
  /\ log = <<>>

Init == InitWith(Corpora(MainFragments, MaxItems), {1})

InitMine == InitWith(Corpora(MineFragments, MaxMineItems), {1})

InitPair == InitWith(Corpora(PairFragments, MaxPairItems), {1, 2})

InitWords == InitWith(Corpora(WordFragments, MaxWordItems), {1})

InitText == InitWith(Corpora(TextFragments, MaxTextItems), {1})

InitFormat == InitWith(Corpora(FormatFragments, MaxFormatItems), {1})

\* analyzer = StyleAnalyzer(sample_texts)
Construct(a) ==
  /\ pc[a] = "new"
  /\ obj' = [obj EXCEPT ![a] = <<NewAnalyzer(request[a])>>]
  /\ pc' = [pc EXCEPT ![a] = "ready"]
  /\ UNCHANGED <<request, frame, ret>>
  /\ UNCHANGED server

Self(a) == obj[a][1]

\* A step of analyze() that also empties the word lists of the other analyzers.
AnalyzeStepTakingWords(a, at, value, next) ==
  /\ pc[a] = at
  /\ frame' = [frame EXCEPT ![a] = Append(@, value)]
  /\ pc' = [pc EXCEPT ![a] = next]
  /\ obj' = [b \in Analyzers |->
               IF b = a \/ obj[b] = <<>> THEN obj[b]
               ELSE <<[obj[b][1] EXCEPT !.all_words = <<>>]>>]
  /\ UNCHANGED <<request, ret>>
  /\ UNCHANGED server

\* One assignment of analyze(): local = self.<method>().
AnalyzeStep(a, at, value, next) ==
  /\ pc[a] = at
  /\ frame' = [frame EXCEPT ![a] = Append(@, value)]
  /\ pc' = [pc EXCEPT ![a] = next]
  /\ UNCHANGED <<request, obj, ret>>
  /\ UNCHANGED server

AnalyzeSentenceMetrics(a) ==
  AnalyzeStep(a, "ready", analyze_sentence_structure(Self(a)), "analyze:question_metrics")

AnalyzeQuestionMetrics(a) ==
  AnalyzeStep(a, "analyze:question_metrics", analyze_questions_hooks(Self(a)),
              "analyze:formatting_metrics")

AnalyzeFormattingMetrics(a) ==
  AnalyzeStep(a, "analyze:formatting_metrics", analyze_formatting(Self(a)),
              "analyze:vocabulary_metrics")

AnalyzeVocabularyMetrics(a) ==
  AnalyzeStep(a, "analyze:vocabulary_metrics", analyze_vocabulary(Self(a)),
              "analyze:punctuation_metrics")

AnalyzePunctuationMetrics(a) ==
  AnalyzeStep(a, "analyze:punctuation_metrics", analyze_punctuation_emoji(Self(a)),
              "analyze:rhythm_metrics")

AnalyzeRhythmMetrics(a) ==
  AnalyzeStep(a, "analyze:rhythm_metrics", analyze_rhythm(Self(a)),
              "analyze:signature_phrases")

AnalyzeSignaturePhrases(a) ==
  AnalyzeStep(a, "analyze:signature_phrases",
              extract_signature_phrases(Self(a), DefaultSignatureTopN),
              "analyze:vocabulary_preferences")

AnalyzeVocabularyPreferences(a) ==
  AnalyzeStep(a, "analyze:vocabulary_preferences",
              extract_vocabulary_preferences(Self(a), DefaultVocabularyTopN),
              "analyze:sentence_starters")

AnalyzeSentenceStarters(a) ==
  AnalyzeStep(a, "analyze:sentence_starters",
              extract_sentence_starters(Self(a), DefaultStarterTopN),
              "analyze:transition_words")

AnalyzeTransitionWords(a) ==
  AnalyzeStep(a, "analyze:transition_words",
              extract_transition_words(Self(a), DefaultTransitionTopN),
              "analyze:formatting_style")

AnalyzeFormattingStyle(a) ==
  AnalyzeStep(a, "analyze:formatting_style", describe_formatting_style(Self(a)),
              "analyze:sample_excerpts")

AnalyzeSampleExcerpts(a) ==
  AnalyzeStep(a, "analyze:sample_excerpts",
              extract_sample_excerpts(Self(a), DefaultExcerptCount, DefaultExcerptMaxLength),
              "analyze:style_summary")

AnalyzeStyleSummary(a) ==
  AnalyzeStep(a, "analyze:style_summary", generate_style_summary(Self(a)),
              "analyze:return")

\* The dictionary analyze() returns, from its thirteen locals.
Profile(f) ==
  [metrics                |-> MergeMetrics(f[1], f[2], f[3], f[4], f[5], f[6]),
   signature_phrases      |-> f[7],
   vocabulary_preferences |-> f[8],
   sentence_starters      |-> f[9],
   transition_words       |-> f[10],
   formatting_style       |-> f[11],
   sample_excerpts        |-> f[12],
   raw_style_summary      |-> f[13]]

\* analyze() run from its first statement to its return on one analyzer.
analyze(self) ==
  Profile(<<analyze_sentence_structure(self),
            analyze_questions_hooks(self),
            analyze_formatting(self),
            analyze_vocabulary(self),
            analyze_punctuation_emoji(self),
            analyze_rhythm(self),
            extract_signature_phrases(self, DefaultSignatureTopN),
            extract_vocabulary_preferences(self, DefaultVocabularyTopN),
            extract_sentence_starters(self, DefaultStarterTopN),
            extract_transition_words(self, DefaultTransitionTopN),
            describe_formatting_style(self),
            extract_sample_excerpts(self, DefaultExcerptCount, DefaultExcerptMaxLength),
            generate_style_summary(self)>>)

Return(a, call, args, value) ==
  /\ ret' = [ret EXCEPT ![a] = <<[call |-> call, args |-> args, value |-> value]>>]
  /\ pc' = [pc EXCEPT ![a] = "returned"]
  /\ frame' = [frame EXCEPT ![a] = <<>>]
  /\ UNCHANGED <<request, obj>>
  /\ UNCHANGED server

AnalyzeReturn(a) ==
  /\ pc[a] = "analyze:return"
  /\ Return(a, "analyze", <<>>, Profile(frame[a]))

CallSignaturePhrases(a, top_n) ==
  /\ pc[a] = "ready"
  /\ Return(a, "extract_signature_phrases", <<top_n>>,
            extract_signature_phrases(Self(a), top_n))

CallVocabularyPreferences(a, top_n) ==
  /\ pc[a] = "ready"
  /\ Return(a, "extract_vocabulary_preferences", <<top_n>>,
            extract_vocabulary_preferences(Self(a), top_n))

CallSentenceStarters(a, top_n) ==
  /\ pc[a] = "ready"
  /\ Return(a, "extract_sentence_starters", <<top_n>>,
            extract_sentence_starters(Self(a), top_n))

CallTransitionWords(a, top_n) ==
  /\ pc[a] = "ready"
  /\ Return(a, "extract_transition_words", <<top_n>>,
            extract_transition_words(Self(a), top_n))

CallSampleExcerpts(a, count, max_length) ==
  /\ pc[a] = "ready"
  /\ Return(a, "extract_sample_excerpts", <<count, max_length>>,
            extract_sample_excerpts(Self(a), count, max_length))

Next ==
  \E a \in Analyzers :
    \/ Construct(a)
    \/ AnalyzeSentenceMetrics(a)
    \/ AnalyzeQuestionMetrics(a)
    \/ AnalyzeFormattingMetrics(a)
    \/ AnalyzeVocabularyMetrics(a)
    \/ AnalyzePunctuationMetrics(a)
    \/ AnalyzeRhythmMetrics(a)
    \/ AnalyzeSignaturePhrases(a)
    \/ AnalyzeVocabularyPreferences(a)
    \/ AnalyzeSentenceStarters(a)
    \/ AnalyzeTransitionWords(a)
    \/ AnalyzeFormattingStyle(a)
    \/ AnalyzeSampleExcerpts(a)
    \/ AnalyzeStyleSummary(a)
    \/ AnalyzeReturn(a)
    \/ \E top_n \in 0..MaxTopN :
         \/ CallSignaturePhrases(a, top_n)
         \/ CallVocabularyPreferences(a, top_n)
         \/ CallSentenceStarters(a, top_n)
         \/ CallTransitionWords(a, top_n)
    \/ \E count \in 0..MaxTopN, max_length \in ExcerptBudgets :
         CallSampleExcerpts(a, count, max_length)

Spec == Init /\ [][Next]_vars

SpecMine == InitMine /\ [][Next]_vars

SpecPair == InitPair /\ [][Next]_vars

SpecWords == InitWords /\ [][Next]_vars

SpecText == InitText /\ [][Next]_vars

SpecFormat == InitFormat /\ [][Next]_vars

(***************************************************************************)
(* The API server (main.py).  A profile is one JSON file of PROFILES_DIR,  *)
(* named after its identifier.  The handlers run on one event loop: a      *)
(* handler runs alone up to an await, so onboard_user, get_profile and     *)
(* remove_profile are one step each, and rewrite_draft is suspended twice, *)
(* at the two generation calls of rewrite_text.  The listing handler only  *)
(* reads the directory and is left out.                                    *)
(***************************************************************************)

\* The most entries of the log at which a new request is still taken.
MaxRequests == 3

\* Path(...) / name, below PROFILES_DIR: the components of a relative name,
\* without the empty ones and the "." ones (pathlib drops both and keeps
\* ".."; no name of the requests below has a ".." or starts with "/").
PathParts(name) ==
  SelectSeq(SplitOn(Chars(name), "/"), LAMBDA part : part # <<>> /\ part # <<".">>)

\* filepath = PROFILES_DIR / f"{profile_id}.json"
FilePath(profile_id) == PathParts(profile_id \o ".json")

\* The JSON document of the file is held as the value it encodes: strings,
\* numbers, booleans, lists and string-keyed dicts, which json.dumps and
\* json.loads carry over unchanged.
save_profile(dir, profile_id, profile_data, samples) ==
  [path \in DOMAIN dir \cup {FilePath(profile_id)} |->
     IF path = FilePath(profile_id)
     THEN [profile |-> profile_data, samples |-> samples]
     ELSE dir[path]]

\* The loaded document as <<data>>, or <<>> for None.
load_profile(dir, profile_id) ==
  IF FilePath(profile_id) \in DOMAIN dir THEN <<dir[FilePath(profile_id)]>> ELSE <<>>

\* The directory after filepath.unlink(), when the file exists.
delete_profile(dir, profile_id) ==
  [path \in DOMAIN dir \ {FilePath(profile_id)} |-> dir[path]]

StyleMetricsFields ==
  {"avg_sentence_length", "sentence_length_std", "short_sentence_ratio",
   "long_sentence_ratio", "question_ratio", "exclamation_ratio",
   "avg_paragraph_length", "uses_bullet_points", "bullet_frequency",
   "vocabulary_richness", "avg_word_length", "contraction_ratio",
   "emoji_frequency", "ellipsis_frequency", "dash_frequency",
   "parenthetical_frequency", "opens_with_short_sentence",
   "sentence_length_variation"}

\* StyleMetrics(**metrics): the declared fields, each of which must be given.
StyleMetrics(metrics) == [field \in StyleMetricsFields |-> metrics[field]]

StyleProfileFields ==
  {"id", "user_name", "created_at", "metrics", "signature_phrases",
   "vocabulary_preferences", "sentence_starters", "transition_words",
   "formatting_style", "sample_excerpts", "raw_style_summary"}

\* StyleProfile(**profile_data)
StyleProfile(profile_data) ==
  [field \in StyleProfileFields |->
     IF field = "metrics" THEN StyleMetrics(profile_data.metrics)
     ELSE profile_data[field]]

\* Bodies of POST /api/onboard that pass OnboardRequest: a name of 1 to 100
\* characters and 3 to 10 samples of at least 50 characters each.
OnboardRequests ==
  {[user_name |-> "Ann",
    samples   |-> <<[text |-> Chars("Thanks for the update, I will read it tomorrow morning.")],
                  [text |-> Chars("Thanks for the update, I will read it tomorrow morning.")],
                  [text |-> Chars("Thanks for the update, I will read it tomorrow morning.")]>>],
   [user_name |-> "Bo",
    samples   |-> <<[text |-> Chars("Go. Go. Go. Go. Go. Go. Go. Go. Go. Go. Go. Go. Go. ")],
                  [text |-> Chars("Go. Go. Go. Go. Go. Go. Go. Go. Go. Go. Go. Go. Go. ")],
                  [text |-> Chars("Go. Go. Go. Go. Go. Go. Go. Go. Go. Go. Go. Go. Go. ")]>>]}

\* sample_texts = [s.text for s in request.samples]
SampleTexts(req) == [i \in 1..Len(req.samples) |-> req.samples[i].text]

\* analyzer = StyleAnalyzer(sample_texts); analysis = analyzer.analyze(),
\* tabled over the request bodies.
Analysed ==
  {<<req, analyze(NewAnalyzer(SampleTexts(req)))>> : req \in OnboardRequests}

\* str(uuid.uuid4())[:8]: eight hexadecimal digits drawn at random; two of the
\* 16^8 values stand for them.
ProfileIds == {"0a1b2c3d", "4e5f6a7b"}

\* datetime.utcnow().isoformat() + "Z"
Instants == {"2024-05-01T10:00:00Z", "2024-05-01T10:00:01Z"}

\* Identifiers a client asks for in the path of GET and DELETE (one segment,
\* no "/"): the generated ones and one that is never generated.
PathIds == ProfileIds \cup {"profile1"}

\* Identifiers a client sends in the body of POST /api/rewrite: any string.
BodyIds == PathIds \cup {"./0a1b2c3d"}

\* Bodies of POST /api/rewrite that pass RewriteRequest (a draft of at least
\* 20 characters).
RewriteRequests ==
  {[profile_id |-> id, draft_text |-> "Please rewrite this text."] : id \in BodyIds}

\* What the generation backend answers to the rewrite prompt.
GeneratedTexts == {"Rewritten in your voice."}

\* The notes parsed from the backend's answer to the notes prompt.
GeneratedNotes == {<<"Shorter sentences">>}

DefaultStyleNotes == <<"Text was rewritten to match the user's writing style profile">>

NotFound(profile_id) == "Profile '" \o profile_id \o "' not found"

Taking == Len(log) < MaxRequests

InitServer == InitWith({<< <<>> >>}, {})

\* POST /api/onboard
onboard_user(req, profile_id, now) ==
  /\ Taking
  /\ \E done \in Analysed :
       /\ done[1] = req
       /\ LET sample_texts == SampleTexts(req)
              analysis     == done[2]
              profile_data ==
                [id                     |-> profile_id,
                 user_name              |-> req.user_name,
                 created_at             |-> now,
                 metrics                |-> analysis.metrics,
                 signature_phrases      |-> analysis.signature_phrases,
                 vocabulary_preferences |-> analysis.vocabulary_preferences,
                 sentence_starters      |-> analysis.sentence_starters,
                 transition_words       |-> analysis.transition_words,
                 formatting_style       |-> analysis.formatting_style,
                 sample_excerpts        |-> analysis.sample_excerpts,
                 raw_style_summary      |-> analysis.raw_style_summary]
          IN /\ files' = save_profile(files, profile_id, profile_data, sample_texts)
             /\ log' = Append(log, [op |-> "onboard", profile_id |-> profile_id,
                                    status |-> 200, body |-> StyleProfile(profile_data)])
  /\ UNCHANGED handlers
  /\ UNCHANGED analyzers

\* GET /api/profiles/{profile_id}
get_profile(profile_id) ==
  /\ Taking
  /\ LET data == load_profile(files, profile_id)
     IN log' = Append(log,
                 IF data = <<>>
                 THEN [op |-> "get", profile_id |-> profile_id, status |-> 404,
                       body |-> NotFound(profile_id)]
                 ELSE [op |-> "get", profile_id |-> profile_id, status |-> 200,
                       body |-> StyleProfile(data[1].profile)])
  /\ UNCHANGED <<files, handlers>>
  /\ UNCHANGED analyzers

\* DELETE /api/profiles/{profile_id}
remove_profile(profile_id) ==
  /\ Taking
  /\ IF FilePath(profile_id) \in DOMAIN files
     THEN /\ files' = delete_profile(files, profile_id)
          /\ log' = Append(log, [op |-> "delete", profile_id |-> profile_id,
                                 status |-> 200,
                                 body |-> [status |-> "deleted", id |-> profile_id]])
     ELSE /\ log' = Append(log, [op |-> "delete", profile_id |-> profile_id,
                                 status |-> 404, body |-> NotFound(profile_id)])
          /\ UNCHANGED files
  /\ UNCHANGED handlers
  /\ UNCHANGED analyzers

\* POST /api/rewrite, up to the first await of rewrite_text: the profile is
\* loaded, and with the API key configured the rewrite prompt is sent.
rewrite_draft(req, configured) ==
  /\ Taking
  /\ LET data == load_profile(files, req.profile_id)
     IN IF data = <<>>
        THEN /\ log' = Append(log, [op |-> "rewrite", profile_id |-> req.profile_id,
                                    status |-> 404,
                                    body |-> NotFound(req.profile_id)])
             /\ UNCHANGED handlers
        ELSE IF ~configured
        THEN /\ log' = Append(log, [op |-> "rewrite", profile_id |-> req.profile_id,
                                    status |-> 500, body |-> "ValueError"])
             /\ UNCHANGED handlers
        ELSE /\ log' = Append(log, [op |-> "generate", profile_id |-> req.profile_id,
                                    body |-> data[1].profile])
             /\ handlers' = handlers \cup
                  {[started |-> Len(log) + 1, request |-> req,
                    style_profile |-> data[1].profile, rewritten_text |-> <<>>]}
  /\ UNCHANGED files
  /\ UNCHANGED analyzers

\* rewrite_text resumed with the backend's answer to the rewrite prompt
\* (<<>>: the call raised): the notes prompt is sent.
rewrite_text_rewritten(handler, response) ==
  /\ handler \in handlers
  /\ handler.rewritten_text = <<>>
  /\ IF response = <<>>
     THEN /\ handlers' = handlers \ {handler}
          /\ log' = Append(log, [op |-> "rewrite",
                                 profile_id |-> handler.request.profile_id,
                                 status |-> 500, body |-> "Exception"])
     ELSE /\ handlers' = (handlers \ {handler}) \cup
                           {[handler EXCEPT !.rewritten_text = response]}
          /\ log' = Append(log, [op |-> "notes",
                                 profile_id |-> handler.request.profile_id,
                                 body |-> handler.style_profile])
  /\ UNCHANGED files
  /\ UNCHANGED analyzers

\* rewrite_text resumed with the backend's answer to the notes prompt (<<>>:
\* the call raised or the answer did not parse), and the response sent.
rewrite_text_noted(handler, response) ==
  /\ handler \in handlers
  /\ handler.rewritten_text # <<>>
  /\ handlers' = handlers \ {handler}
  /\ log' = Append(log, [op |-> "rewrite",
                         profile_id |-> handler.request.profile_id,
                         status |-> 200,
                         body |-> [original_text  |-> handler.request.draft_text,
                                   rewritten_text |-> handler.rewritten_text[1],
                                   profile_id     |-> handler.request.profile_id,
                                   style_notes    |-> IF response = <<>>
                                                      THEN DefaultStyleNotes
                                                      ELSE response[1]]])
  /\ UNCHANGED files
  /\ UNCHANGED analyzers

NextServer ==
  \/ \E req \in OnboardRequests, profile_id \in ProfileIds, now \in Instants :
       onboard_user(req, profile_id, now)
  \/ \E profile_id \in PathIds : get_profile(profile_id)
  \/ \E profile_id \in PathIds : remove_profile(profile_id)
  \/ \E req \in RewriteRequests, configured \in BOOLEAN :
       rewrite_draft(req, configured)
  \/ \E handler \in handlers, response \in {<<>>} \cup {<<text>> : text \in GeneratedTexts} :
       rewrite_text_rewritten(handler, response)
  \/ \E handler \in handlers, response \in {<<>>} \cup {<<notes>> : notes \in GeneratedNotes} :
       rewrite_text_noted(handler, response)

SpecServer == InitServer /\ [][NextServer]_vars

(***************************************************************************)
(* Properties.                                                             *)
(***************************************************************************)
Returned(a, call) == pc[a] = "returned" /\ ret[a][1].call = call

Value(a) == ret[a][1].value

Args(a) == ret[a][1].args

HasProfile(a) == Returned(a, "analyze")

AllWhitespace(corpus) ==
  \A i \in 1..Len(corpus) : \A k \in 1..Len(corpus[i]) : corpus[i][k] \in Space

C2_EmptyInputDefaults ==
  \A a \in Analyzers :
    AllWhitespace(request[a]) =>
      /\ pc[a] \in {"new", "ready"} \cup
                   {"analyze:question_metrics", "analyze:formatting_metrics",
                    "analyze:vocabulary_metrics", "analyze:punctuation_metrics",
                    "analyze:rhythm_metrics", "analyze:signature_phrases",
                    "analyze:vocabulary_preferences", "analyze:sentence_starters",
                    "analyze:transition_words", "analyze:formatting_style",
                    "analyze:sample_excerpts", "analyze:style_summary",
                    "analyze:return"}
           => ENABLED Next
      /\ HasProfile(a) =>
           LET p == Value(a)
               m == p.metrics
           IN /\ m.avg_sentence_length = 0 /\ m.sentence_length_std = 0
              /\ m.short_sentence_ratio = 0 /\ m.long_sentence_ratio = 0
              /\ m.question_ratio = 0 /\ m.exclamation_ratio = 0
              /\ m.avg_paragraph_length = 0 /\ m.bullet_frequency = 0
              /\ m.vocabulary_richness = 0 /\ m.avg_word_length = 0
              /\ m.contraction_ratio = 0 /\ m.emoji_frequency = 0
              /\ m.ellipsis_frequency = 0 /\ m.dash_frequency = 0
              /\ m.parenthetical_frequency = 0 /\ m.opens_with_short_sentence = 0
              /\ m.uses_bullet_points = FALSE
              /\ m.sentence_length_variation = "low"
              /\ p.signature_phrases = <<>>
              /\ p.vocabulary_preferences = <<>>
              /\ p.sentence_starters = <<>>
              /\ p.transition_words = <<>>
              /\ p.sample_excerpts = <<>>

\* analyze() has returned for a corpus of several samples, all of them
\* whitespace and one of them not empty.
C2_Witness ==
  \E a \in Analyzers :
    /\ HasProfile(a)
    /\ AllWhitespace(request[a])
    /\ Len(request[a]) > 1
    /\ \E i \in 1..Len(request[a]) : request[a][i] # <<>>

\* C3: zero-denominator policy of the per-100 metrics.  For a corpus with no
\* word tokens emoji_frequency = 0 and dash_frequency = 0, and for a corpus with
\* no sentences ellipsis_frequency = 0 and parenthetical_frequency = 0, whatever
\* the raw text contains.
C3_ZeroDenominatorPolicy ==
  \A a \in Analyzers :
    HasProfile(a) =>
      LET m == Value(a).metrics
      IN /\ obj[a][1].all_words = <<>> =>
              m.emoji_frequency = 0 /\ m.dash_frequency = 0
         /\ obj[a][1].all_sentences = <<>> =>
              m.ellipsis_frequency = 0 /\ m.parenthetical_frequency = 0

\* C4: ratio bounds.  Each count-over-total metric returned by analyze() lies
\* in [0, 1], that is in 0..1000 thousandths.
C4_RatioBounds ==
  \A a \in Analyzers :
    HasProfile(a) =>
      LET m == Value(a).metrics
      IN \A x \in {m.short_sentence_ratio, m.long_sentence_ratio, m.question_ratio,
                   m.exclamation_ratio, m.bullet_frequency, m.vocabulary_richness,
                   m.contraction_ratio, m.opens_with_short_sentence} :
           0 <= x /\ x <= 1000

\* A profile with one ratio at its upper bound and two strictly inside the
\* interval.
C4_Witness ==
  \E a \in Analyzers :
    /\ HasProfile(a)
    /\ Value(a).metrics.short_sentence_ratio = 1000
    /\ Value(a).metrics.question_ratio \in 1..999
    /\ Value(a).metrics.contraction_ratio \in 1..999

\* The words of a phrase: the n-gram it was joined from.
PhraseWords(phrase) == SplitOn(phrase, " ")

\* The positions at which gram is a window of the words of a sample.
WindowsIn(sample, gram) ==
  LET w == get_words(sample)
  IN {k \in 1..(Len(w) - Len(gram) + 1) : SubSeq(w, k, k + Len(gram) - 1) = gram}

\* The corpus count of an n-gram: its windows, sample by sample.
CorpusCount(corpus, gram) ==
  SumSeq([i \in 1..Len(corpus) |-> Cardinality(WindowsIn(corpus[i], gram))])

IsSubstring(small, big) ==
  \E k \in 1..(Len(big) - Len(small) + 1) : SubSeq(big, k, k + Len(small) - 1) = small

NonIncreasing(counts) ==
  \A i, j \in 1..Len(counts) : i < j => counts[i] >= counts[j]

\* C5: signature-phrase ordering.  For every top_n >= 0,
\* extract_signature_phrases(top_n) returns at most top_n phrases, every
\* trigram before every bigram, at most floor(top_n / 2) trigrams, the trigrams
\* in non-increasing corpus count, and every n-gram with corpus count >= 2 and
\* a word outside the stop-word set.
C5_SignatureOrdering ==
  \A a \in Analyzers :
    Returned(a, "extract_signature_phrases") =>
      LET top_n  == Args(a)[1]
          grams  == [i \in 1..Len(Value(a)) |-> PhraseWords(Value(a)[i])]
          counts == [i \in 1..Len(grams) |-> CorpusCount(request[a], grams[i])]
          tri    == {i \in 1..Len(grams) : Len(grams[i]) = 3}
          bi     == {i \in 1..Len(grams) : Len(grams[i]) = 2}
      IN /\ Len(grams) <= top_n
         /\ tri \cup bi = 1..Len(grams)
         /\ \A i \in tri, j \in bi : i < j
         /\ Cardinality(tri) <= top_n \div 2
         /\ \A i, j \in tri : i < j => counts[i] >= counts[j]
         /\ \A i \in 1..Len(grams) : counts[i] >= 2 /\ ~AllCommon(grams[i])

\* C6: signature-phrase de-duplication.  No bigram phrase returned by
\* extract_signature_phrases is a substring of a phrase earlier in the list.
C6_NoBigramInsideEarlierPhrase ==
  \A a \in Analyzers :
    Returned(a, "extract_signature_phrases") =>
      \A i, j \in 1..Len(Value(a)) :
        (i < j /\ Len(PhraseWords(Value(a)[j])) = 2)
          => ~IsSubstring(Value(a)[j], Value(a)[i])

AtTheEnd == << <<"a","t">>, <<"t","h","e">>, <<"e","n","d">> >>

\* The samples in which "at the end" is a trigram.
SamplesWithAtTheEnd(corpus) ==
  {i \in 1..Len(corpus) : WindowsIn(corpus[i], AtTheEnd) # {}}

\* The trigrams of the corpus, sample after sample, and where each first occurs.
CorpusTrigrams(corpus) ==
  UNION {{SubSeq(get_words(corpus[i]), k, k + 2) : k \in 1..(Len(get_words(corpus[i])) - 2)} :
           i \in 1..Len(corpus)}

FirstOccurrence(corpus, gram) ==
  LET i == MinOf({x \in 1..Len(corpus) : WindowsIn(corpus[x], gram) # {}})
  IN <<i, MinOf(WindowsIn(corpus[i], gram))>>

Earlier(p, q) == p[1] < q[1] \/ (p[1] = q[1] /\ p[2] < q[2])

\* The trigrams ranked ahead of gram: a higher count, or the same count and
\* an earlier first occurrence.
RankedAhead(corpus, gram) ==
  {h \in CorpusTrigrams(corpus) :
     \/ CorpusCount(corpus, h) > CorpusCount(corpus, gram)
     \/ /\ CorpusCount(corpus, h) = CorpusCount(corpus, gram)
        /\ Earlier(FirstOccurrence(corpus, h), FirstOccurrence(corpus, gram))}

Qualifying(corpus, gram) == CorpusCount(corpus, gram) >= 2 /\ ~AllCommon(gram)

\* C7, as claimed: whenever "at the end" is a trigram of at least two samples,
\* the signature_phrases of analyze() contain it, whatever else the corpus
\* contains.
C7_AtTheEndAlways ==
  \A a \in Analyzers :
    (HasProfile(a) /\ Cardinality(SamplesWithAtTheEnd(request[a])) >= 2)
      => JoinWords(AtTheEnd) \in Range(Value(a).signature_phrases)

\* C7, amended: whenever "at the end" is a trigram of at least two samples,
\* the signature_phrases of analyze() contain it, provided it is among the 50
\* trigrams ranked first (by descending count, ties in order of first
\* occurrence) and fewer than 5 trigrams of count >= 2 with a word outside the
\* stop-word set are ranked ahead of it.
C7_AtTheEndWhenRanked ==
  \A a \in Analyzers :
    (/\ HasProfile(a)
     /\ Cardinality(SamplesWithAtTheEnd(request[a])) >= 2
     /\ Cardinality(RankedAhead(request[a], AtTheEnd)) < MostCommonNgrams
     /\ Cardinality({h \in RankedAhead(request[a], AtTheEnd) : Qualifying(request[a], h)})
          < DefaultSignatureTopN \div 2)
      => JoinWords(AtTheEnd) \in Range(Value(a).signature_phrases)

\* "at the end" is a trigram of two samples of a corpus with other trigrams,
\* and analyze() has returned it.
C7_Witness ==
  \E a \in Analyzers :
    /\ HasProfile(a)
    /\ Cardinality(SamplesWithAtTheEnd(request[a])) >= 2
    /\ CorpusTrigrams(request[a]) # {AtTheEnd}
    /\ Cardinality({h \in RankedAhead(request[a], AtTheEnd) : Qualifying(request[a], h)})
         < DefaultSignatureTopN \div 2
    /\ JoinWords(AtTheEnd) \in Range(Value(a).signature_phrases)

\* C8: the n-grams extract_signature_phrases counts are built over each sample
\* on its own.  Every bigram and trigram it counts is a window of the words of
\* one sample, every such window is counted, the count of an n-gram is the sum
\* over the samples of its windows, and so every phrase returned is a window
\* of one sample.
C8_NgramsPerSample ==
  \A a \in Analyzers :
    Returned(a, "extract_signature_phrases") =>
      /\ \A n \in {2, 3} :
           LET grams == CollectNgrams(Self(a).samples, n)
           IN /\ \A g \in Range(grams) :
                   /\ \E i \in 1..Len(request[a]) : WindowsIn(request[a][i], g) # {}
                   /\ CountOf(grams, g) = CorpusCount(request[a], g)
              /\ \A i \in 1..Len(request[a]) :
                   LET w == get_words(request[a][i])
                   IN \A k \in 1..(Len(w) - n + 1) : SubSeq(w, k, k + n - 1) \in Range(grams)
      /\ \A i \in 1..Len(Value(a)) :
           \E x \in 1..Len(request[a]) : WindowsIn(request[a][x], PhraseWords(Value(a)[i])) # {}

\* extract_signature_phrases has returned a phrase whose two occurrences lie
\* in two samples that follow one another.
C8_Witness ==
  \E a \in Analyzers :
    /\ Returned(a, "extract_signature_phrases")
    /\ \E i \in 1..(Len(request[a]) - 1), p \in Range(Value(a)) :
         /\ Cardinality(WindowsIn(request[a][i], PhraseWords(p))) = 1
         /\ Cardinality(WindowsIn(request[a][i + 1], PhraseWords(p))) = 1
         /\ CorpusCount(request[a], PhraseWords(p)) = 2

\* C9: vocabulary preferences.  extract_vocabulary_preferences(top_n) returns
\* the first top_n of the words with corpus count >= 2, length > 2, not purely
\* numeric and not stop words, by descending count: no qualifying word is left
\* out for a less frequent one, and never more than top_n entries.
C9_VocabularyPreferences ==
  \A a \in Analyzers :
    Returned(a, "extract_vocabulary_preferences") =>
      LET top_n  == Args(a)[1]
          words  == Self(a).all_words
          v      == Value(a)
          good   == {w \in Range(words) :
                       /\ CountOf(words, w) >= 2
                       /\ Len(w) > 2
                       /\ ~IsDigitWord(w)
                       /\ Str(w) \notin COMMON_WORDS}
      IN /\ Len(v) = Min(top_n, Cardinality(good))
         /\ Range(v) \subseteq good
         /\ \A i, j \in 1..Len(v) : i < j => v[i] # v[j]
         /\ NonIncreasing([i \in 1..Len(v) |-> CountOf(words, v[i])])
         /\ \A w \in good \ Range(v) :
              \A i \in 1..Len(v) : CountOf(words, w) <= CountOf(words, v[i])

\* The first two words of a sentence, lowercased (its one word, if it has one).
OpeningOf(sentence) == LowerStr(JoinWords(Take(SplitWhitespace(sentence), 2)))

\* C10: sentence starters.  Every entry returned by extract_sentence_starters
\* is the lowercased opening of at least two sentences of the corpus, is not a
\* generic starter, the entries are in non-increasing order of count, and at
\* most top_n are returned.
C10_SentenceStarters ==
  \A a \in Analyzers :
    Returned(a, "extract_sentence_starters") =>
      LET top_n     == Args(a)[1]
          sentences == Self(a).all_sentences
          v         == Value(a)
          Uses(e)   == Cardinality({i \in 1..Len(sentences) : OpeningOf(sentences[i]) = e})
      IN /\ \A i \in 1..Len(v) :
              Uses(v[i]) >= 2 /\ Str(v[i]) \notin generic_starters
         /\ NonIncreasing([i \in 1..Len(v) |-> Uses(v[i])])
         /\ Len(v) <= top_n

\* The occurrences of a candidate connector in the corpus: the windows of its
\* words in the words of each sample.
Occurrences(corpus, candidate) == CorpusCount(corpus, get_words(Chars(candidate)))

\* C11: transition words are a closed vocabulary ranked by frequency.  Every
\* entry returned by extract_transition_words belongs to the candidate list
\* and occurs in the corpus, the entries are in non-increasing order of corpus
\* count, and at most top_n are returned.
C11_TransitionWordsClosedAndRanked ==
  \A a \in Analyzers :
    Returned(a, "extract_transition_words") =>
      LET v == Value(a)
      IN /\ \A i \in 1..Len(v) :
              /\ \E j \in 1..Len(transition_candidates) : transition_candidates[j] = Str(v[i])
              /\ CorpusCount(request[a], <<v[i]>>) >= 1
         /\ NonIncreasing([i \in 1..Len(v) |-> CorpusCount(request[a], <<v[i]>>)])
         /\ Len(v) <= Args(a)[1]

\* "however" three times and "moreover" once, returned in that order.
C11_Witness ==
  \E a \in Analyzers :
    /\ Returned(a, "extract_transition_words")
    /\ Occurrences(request[a], "however") = 3
    /\ Occurrences(request[a], "moreover") = 1
    /\ Value(a) = <<Chars("however"), Chars("moreover")>>

\* C12: transition phrases are reported.  Every candidate of the list, the
\* multi-word ones included, that occurs in the corpus is returned by
\* extract_transition_words whenever fewer than top_n candidates are ranked
\* ahead of it (a higher number of occurrences or, to settle ties as the code
\* does, the same number and an earlier place in the list).
C12_TransitionPhrasesReported ==
  \A a \in Analyzers :
    Returned(a, "extract_transition_words") =>
      LET occ == [j \in 1..Len(transition_candidates) |->
                    Occurrences(request[a], transition_candidates[j])]
          Ahead(j) == {k \in 1..Len(transition_candidates) :
                         occ[k] > occ[j] \/ (occ[k] = occ[j] /\ occ[k] >= 1 /\ k < j)}
      IN \A j \in 1..Len(transition_candidates) :
           (occ[j] >= 1 /\ Cardinality(Ahead(j)) < Args(a)[1])
             => \E i \in 1..Len(Value(a)) : Str(Value(a)[i]) = transition_candidates[j]

Constructed(a) == pc[a] \notin {"absent", "new"}

\* A text with each whitespace run turned into one space, and no space at
\* either end.
RECURSIVE OneSpaced(_, _)
OneSpaced(t, afterSpace) ==
  IF t = <<>> THEN <<>>
  ELSE IF Head(t) \in Space
       THEN (IF afterSpace THEN <<>> ELSE <<" ">>) \o OneSpaced(Tail(t), TRUE)
       ELSE <<Head(t)>> \o OneSpaced(Tail(t), FALSE)

Normalised(t) ==
  LET n == OneSpaced(t, TRUE)
  IN IF n # <<>> /\ n[Len(n)] = " " THEN SubSeq(n, 1, Len(n) - 1) ELSE n

\* The spaces of a normalised text at which a sentence ends: after '.', '!'
\* or '?' and before an uppercase letter or a quote character.
SentenceBreaks(n) ==
  {i \in 2..(Len(n) - 1) :
     /\ n[i] = " "
     /\ n[i-1] \in {".", "!", "?"}
     /\ n[i+1] \in Upper \cup {"\"", "'"}}

\* The sentences the splitting rule gives for a text.
SentencesOf(text) ==
  LET n      == Normalised(text)
      breaks == Ascending(SentenceBreaks(n), 1, Len(n))
      Start(k) == IF k = 1 THEN 1 ELSE breaks[k-1] + 1
      End(k)   == IF k = Len(breaks) + 1 THEN Len(n) ELSE breaks[k] - 1
      pieces == [k \in 1..(Len(breaks) + 1) |-> SubSeq(n, Start(k), End(k))]
  IN SelectIdx(pieces, LAMBDA k : Len(pieces[k]) >= 2)

\* C13: sentence splitting.  split_sentences collapses each whitespace run to
\* one space, splits exactly at the spaces preceded by '.', '!' or '?' and
\* followed by an uppercase letter (A-Z) or a quote character (" or '), and
\* returns the pieces in text order, trimmed, without those shorter than 2
\* characters: the sentences of an analyzer are those of its samples, in order.
C13_SentenceSplitting ==
  \A a \in Analyzers :
    Constructed(a) =>
      Self(a).all_sentences =
        Flatten([i \in 1..Len(request[a]) |-> SentencesOf(request[a][i])])

\* A sample with a whitespace run, a split before an uppercase letter or a
\* quote, and a terminal mark and space before a lowercase letter or a digit,
\* where there is no split.
C13_Witness ==
  \E a \in Analyzers :
    /\ Constructed(a)
    /\ \E i \in 1..Len(request[a]) :
         LET t == request[a][i]
             n == Normalised(t)
         IN /\ \E k \in 1..(Len(t) - 1) : t[k] \in Space /\ t[k+1] \in Space
            /\ SentenceBreaks(n) # {}
            /\ \E k \in 2..(Len(n) - 1) :
                 n[k] = " " /\ n[k-1] \in {".", "!", "?"} /\ n[k+1] \in Lower \cup Digit
            /\ Len(split_sentences(t)) >= 2

\* The lines of a text.
LinesOf(text) == SplitOn(text, "\n")

\* C14: paragraph splitting.  split_paragraphs starts a new paragraph at every
\* blank line and before every line that begins with a bullet or numbered-list
\* marker (the lines analyze_formatting counts as bullet lines), and returns
\* no empty paragraph: no paragraph of an analyzer is empty, none holds a blank
\* line, and no line of a paragraph after its first begins with a marker.
C14_ParagraphSplitting ==
  \A a \in Analyzers :
    Constructed(a) =>
      \A p \in Range(Self(a).all_paragraphs) :
        /\ p # <<>>
        /\ \A k \in 2..Len(LinesOf(p)) :
             /\ Strip(LinesOf(p)[k]) # <<>>
             /\ ~IsBulletLine(LinesOf(p)[k])

\* std / mean > num / den for the population standard deviation and the mean
\* of xs, in integers: den^2 * (n * sum(x^2) - sum(x)^2) > num^2 * sum(x)^2.
CoefficientOfVariationAbove(xs, num, den) ==
  LET n  == Len(xs)
      s1 == SumSeq(xs)
      s2 == SumSeq([i \in 1..n |-> xs[i] * xs[i]])
  IN s1 > 0 /\ den * den * (n * s2 - s1 * s1) > num * num * s1 * s1

\* The category the coefficient of variation of xs falls in.
VariationOf(xs) ==
  IF Len(xs) < 2 THEN "low"
  ELSE IF CoefficientOfVariationAbove(xs, 7, 10) THEN "high"
  ELSE IF CoefficientOfVariationAbove(xs, 4, 10) THEN "medium"
  ELSE "low"

\* C15: sentence_length_variation is the category of cv = (population std of
\* the per-sentence word counts) / (their mean): "high" iff cv > 0.7, "medium"
\* iff 0.4 < cv <= 0.7, "low" otherwise, and "low" with fewer than 2
\* sentences, for every corpus, a mean below 1 word included.
C15_VariationIsCoefficientOfVariation ==
  \A a \in Analyzers :
    HasProfile(a) =>
      Value(a).metrics.sentence_length_variation =
        VariationOf([i \in 1..Len(Self(a).all_sentences) |->
                       count_words(Self(a).all_sentences[i])])

\* The first k sentences of a sample, joined by single spaces.
FirstSentences(sample, k) == Join(Take(split_sentences(sample), k), <<" ">>)

\* excerpt is the first k sentences of sample, within the budget, with k as
\* large as three sentences, the sample and the budget allow.
IsExcerptOf(excerpt, sample, k, max_length) ==
  /\ k \in 1..3
  /\ k <= Len(split_sentences(sample))
  /\ excerpt = FirstSentences(sample, k)
  /\ Len(excerpt) <= max_length
  /\ \/ k = 3
     \/ k = Len(split_sentences(sample))
     \/ Len(FirstSentences(sample, k + 1)) > max_length

\* C16: excerpt budget.  Every excerpt returned by
\* extract_sample_excerpts(count, max_length) is the first k sentences
\* (1 <= k <= 3) of one sample joined by single spaces, is at most max_length
\* long, and k is maximal: accumulation stops at the first sentence that would
\* exceed max_length and nothing is added after a stop.
C16_ExcerptBudget ==
  \A a \in Analyzers :
    Returned(a, "extract_sample_excerpts") =>
      \A e \in Range(Value(a)) :
        \E i \in 1..Len(request[a]), k \in 1..3 :
          IsExcerptOf(e, request[a][i], k, Args(a)[2])

\* An excerpt that the budget stopped short of the sample's next sentence.
C16_Witness ==
  \E a \in Analyzers :
    /\ Returned(a, "extract_sample_excerpts")
    /\ \E e \in Range(Value(a)), i \in 1..Len(request[a]), k \in 1..2 :
         /\ IsExcerptOf(e, request[a][i], k, Args(a)[2])
         /\ k < Len(split_sentences(request[a][i]))
         /\ Len(FirstSentences(request[a][i], k + 1)) > Args(a)[2]

\* C17: excerpt count and order.  extract_sample_excerpts returns at most
\* count excerpts, one per sample in sample order: the i-th excerpt returned
\* is taken from the i-th sample.
C17_ExcerptPerSampleInOrder ==
  \A a \in Analyzers :
    Returned(a, "extract_sample_excerpts") =>
      /\ Len(Value(a)) <= Args(a)[1]
      /\ Len(Value(a)) <= Len(request[a])
      /\ \A i \in 1..Len(Value(a)) :
           \E k \in 1..3 : IsExcerptOf(Value(a)[i], request[a][i], k, Args(a)[2])

\* The sentences whose last character that is not whitespace is mark.
SentencesEnding(sentences, mark) ==
  {i \in 1..Len(sentences) :
     \E k \in 1..Len(sentences[i]) :
       /\ sentences[i][k] = mark
       /\ \A m \in (k+1)..Len(sentences[i]) : sentences[i][m] \in Space}

\* thousandths is count / total rounded to 3 decimals.
IsRatioOf(thousandths, count, total) ==
  LET d == thousandths * total - 1000 * count
  IN 2 * d <= total /\ -2 * d <= total

ExampleSample == Chars("I love this. Don't you? It's amazing!!")

\* C18: question and exclamation ratios.  For every corpus with at least one
\* sentence, question_ratio is (sentences whose last non-whitespace character
\* is '?') / (sentences) and exclamation_ratio the same for '!', rounded to 3
\* decimals; the sample "I love this. Don't you? It's amazing!!" has 3
\* sentences, question_ratio 0.333, exclamation_ratio 0.333 and
\* contraction_ratio > 0.
C18_QuestionAndExclamationRatios ==
  \A a \in Analyzers :
    HasProfile(a) =>
      LET sentences == Self(a).all_sentences
          m         == Value(a).metrics
      IN /\ Len(sentences) >= 1 =>
              /\ IsRatioOf(m.question_ratio,
                           Cardinality(SentencesEnding(sentences, "?")), Len(sentences))
              /\ IsRatioOf(m.exclamation_ratio,
                           Cardinality(SentencesEnding(sentences, "!")), Len(sentences))
         /\ request[a] = <<ExampleSample>> =>
              /\ Len(sentences) = 3
              /\ m.question_ratio = 333
              /\ m.exclamation_ratio = 333
              /\ m.contraction_ratio > 0

\* The profile of the sample "I love this. Don't you? It's amazing!!".
C18_Witness ==
  \E a \in Analyzers : HasProfile(a) /\ request[a] = <<ExampleSample>>

\* A line that begins, after its indentation, with a bullet marker and a
\* space, or with digits, '.' or ')' and a space.
HasListMarker(line) ==
  LET l      == Strip(line)
      digits == IF \A k \in 1..Len(l) : l[k] \in Digit THEN Len(l)
                ELSE MinOf({k \in 1..Len(l) : l[k] \notin Digit}) - 1
  IN \/ Len(l) >= 2 /\ l[1] \in {"-", "U+2022", "*"} /\ l[2] \in Space
     \/ /\ digits >= 1
        /\ Len(l) >= digits + 2
        /\ l[digits + 1] \in {".", ")"}
        /\ l[digits + 2] \in Space

\* C19: bullet detection.  uses_bullet_points is true if and only if at least
\* one line of the combined text has a bullet or numbered-list marker; with no
\* such line bullet_frequency is 0, and otherwise it is (matching lines) /
\* (total lines) rounded to 3 decimals.
C19_BulletDetection ==
  \A a \in Analyzers :
    HasProfile(a) =>
      LET lines    == LinesOf(Join(request[a], <<"\n", "\n">>))
          matching == {i \in 1..Len(lines) : HasListMarker(lines[i])}
          m        == Value(a).metrics
      IN /\ m.uses_bullet_points <=> matching # {}
         /\ matching = {} => m.bullet_frequency = 0
         /\ matching # {} => IsRatioOf(m.bullet_frequency, Cardinality(matching), Len(lines))

\* A profile of a text with a bullet line, a numbered line and a plain line.
C19_Witness ==
  \E a \in Analyzers :
    /\ HasProfile(a)
    /\ LET lines == LinesOf(Join(request[a], <<"\n", "\n">>))
       IN /\ \E i \in 1..Len(lines) : HasListMarker(lines[i]) /\ lines[i][1] = "-"
          /\ \E i \in 1..Len(lines) : HasListMarker(lines[i]) /\ lines[i][1] \in Digit
          /\ \E i \in 1..Len(lines) : ~HasListMarker(lines[i]) /\ Strip(lines[i]) # <<>>
    /\ Value(a).metrics.uses_bullet_points
    /\ Value(a).metrics.bullet_frequency \in 1..999

\* The rules of the style summary, in order: the alternative clauses of each
\* rule, and whether one of them is always present.
SummaryRules ==
  << [always |-> TRUE,
      clauses |-> <<"This writer uses notably short, punchy sentences",
                    "This writer uses moderate-length sentences",
                    "This writer tends toward longer, more detailed sentences">>],
     [always |-> TRUE,
      clauses |-> <<"with high variation between short and long sentences, creating a dynamic rhythm",
                    "with moderate variation in sentence length",
                    "with consistent sentence lengths throughout">>],
     [always |-> FALSE,
      clauses |-> <<"They frequently use rhetorical questions to engage readers",
                    "They occasionally use questions">>],
     [always |-> FALSE,
      clauses |-> <<"Exclamation marks are used liberally for emphasis and energy">>],
     [always |-> FALSE,
      clauses |-> <<"The vocabulary is rich and varied",
                    "The vocabulary is focused and repetitive (which creates familiarity)">>],
     [always |-> FALSE,
      clauses |-> <<"Heavy use of contractions gives a conversational, informal tone",
                    "Minimal contractions suggest a more formal tone">>],
     [always |-> FALSE,
      clauses |-> <<"Bullet points and lists are part of the formatting style">>],
     [always |-> FALSE,
      clauses |-> <<"Emojis are used frequently as part of the communication style",
                    "Emojis are used sparingly">>],
     [always |-> FALSE,
      clauses |-> <<"Dashes are used frequently for emphasis or asides">>],
     [always |-> FALSE,
      clauses |-> <<"Paragraphs often open with a short, punchy statement">>] >>

\* The places of a clause in a summary.
PlacesOf(clause, summary) ==
  {k \in 1..(Len(summary) - Len(clause) + 1) :
     SubSeq(summary, k, k + Len(clause) - 1) = clause}

\* The clauses of rule r found in a summary, in the order of the rule.
ClausesOfRule(r, summary) ==
  SelectIdx(SummaryRules[r].clauses,
            LAMBDA i : PlacesOf(SummaryRules[r].clauses[i], summary) # {})

\* The clauses found in a summary, by rule.
ClausesFound(summary) ==
  Flatten([r \in 1..Len(SummaryRules) |-> ClausesOfRule(r, summary)])

\* C20: style-summary cascade.  generate_style_summary emits its clauses in
\* the fixed order sentence length, variation, questions, exclamations,
\* vocabulary, contractions, bullets, emoji, dashes, paragraph opening; one
\* sentence-length clause and one variation clause are always present, every
\* other rule gives at most one clause, and two alternatives of one rule never
\* both appear: the summary is its clauses, one per rule at most, joined in
\* rule order.
C20_SummaryCascade ==
  \A a \in Analyzers :
    HasProfile(a) =>
      LET summary == Value(a).raw_style_summary
      IN /\ \A r \in 1..Len(SummaryRules) :
              /\ Len(ClausesOfRule(r, summary)) <= 1
              /\ SummaryRules[r].always => Len(ClausesOfRule(r, summary)) = 1
         /\ summary = JoinClauses(ClausesFound(summary)) \o "."

\* A summary of seven clauses or more.
C20_Witness ==
  \E a \in Analyzers :
    /\ HasProfile(a)
    /\ Len(ClausesFound(Value(a).raw_style_summary)) >= 7

ParagraphClauses ==
  <<"Uses very short paragraphs (1-2 sentences)",
    "Uses moderate-length paragraphs (3-4 sentences)",
    "Uses longer paragraphs (5+ sentences)">>

BulletClauses ==
  <<"Heavy use of bullet points and lists",
    "Occasional use of bullet points",
    "Rarely or never uses bullet points">>

\* The paragraph clause that goes with avg_paragraph_length (in hundredths).
ParagraphClauseFor(m) ==
  IF m.avg_paragraph_length <= 200 THEN ParagraphClauses[1]
  ELSE IF m.avg_paragraph_length <= 400 THEN ParagraphClauses[2]
  ELSE ParagraphClauses[3]

\* The bullet clause that goes with uses_bullet_points and bullet_frequency
\* (in thousandths).
BulletClauseFor(m) ==
  IF m.uses_bullet_points /\ m.bullet_frequency > 200 THEN BulletClauses[1]
  ELSE IF m.uses_bullet_points THEN BulletClauses[2]
  ELSE BulletClauses[3]

\* The number of places the clauses of a list take in a text.
PlacesTaken(clauses, text) ==
  SumSeq([i \in 1..Len(clauses) |-> Cardinality(PlacesOf(clauses[i], text))])

\* C21: formatting-description cascade.  describe_formatting_style starts
\* with exactly one paragraph clause, chosen from avg_paragraph_length (<= 2
\* short, <= 4 moderate, otherwise long), followed by exactly one bullet
\* clause (heavy iff uses_bullet_points and bullet_frequency > 0.2, occasional
\* iff uses_bullet_points and bullet_frequency <= 0.2, rarely or never iff not
\* uses_bullet_points), in that order.
C21_FormattingCascade ==
  \A a \in Analyzers :
    HasProfile(a) =>
      LET style == Value(a).formatting_style
          head  == ParagraphClauseFor(Value(a).metrics) \o ". "
                     \o BulletClauseFor(Value(a).metrics) \o "."
      IN /\ Len(style) >= Len(head)
         /\ SubSeq(style, 1, Len(head)) = head
         /\ PlacesTaken(ParagraphClauses, style) = 1
         /\ PlacesTaken(BulletClauses, style) = 1

\* A description of long paragraphs with heavy use of bullets.
C21_Witness ==
  \E a \in Analyzers :
    /\ HasProfile(a)
    /\ Value(a).metrics.avg_paragraph_length > 400
    /\ Value(a).metrics.uses_bullet_points
    /\ PlacesOf(ParagraphClauses[3], Value(a).formatting_style) = {1}
    /\ PlacesOf(BulletClauses[1], Value(a).formatting_style) # {}

MarksOf(profile_id, k) ==
  {j \in 1..(k - 1) :
     /\ log[j].profile_id = profile_id
     /\ \/ log[j].op = "onboard"
        \/ log[j].op = "delete" /\ log[j].status = 200}

\* The identifier was returned by an onboard before entry k and not deleted since.
InUse(profile_id, k) ==
  /\ MarksOf(profile_id, k) # {}
  /\ log[MaxOf(MarksOf(profile_id, k))].op = "onboard"

\* The profile the last onboard before entry k returned for the identifier.
Onboarded(profile_id, k) == log[MaxOf(MarksOf(profile_id, k))].body

\* C23: profile lifecycle and immutability.  In every sequence of onboard,
\* get, rewrite and delete requests: get answers 200 with the profile as the
\* onboard that returned the identifier persisted it when the identifier was
\* returned by an earlier onboard and not deleted since, and 404 otherwise;
\* delete answers 200 in the first case and 404 otherwise; rewrite sends its
\* prompts to the generation backend, with that profile, in the first case
\* only and answers 404 otherwise; an onboard never returns, and so never
\* writes to, an identifier that is in use; and the file of every identifier
\* in use holds the profile its onboard returned.
C23_ProfileLifecycle ==
  /\ \A k \in 1..Len(log) :
       LET entry == log[k]
           known == InUse(entry.profile_id, k)
       IN /\ entry.op = "get" =>
               /\ entry.status = IF known THEN 200 ELSE 404
               /\ known => entry.body = Onboarded(entry.profile_id, k)
          /\ entry.op = "delete" => entry.status = IF known THEN 200 ELSE 404
          /\ entry.op \in {"generate", "notes"} =>
               \E j \in 1..k :
                 /\ log[j].op = "generate"
                 /\ log[j].profile_id = entry.profile_id
                 /\ log[j].body = entry.body
                 /\ InUse(entry.profile_id, j)
                 /\ StyleProfile(entry.body) = Onboarded(entry.profile_id, j)
          /\ (entry.op = "rewrite" /\ entry.status = 404) => ~known
          /\ (entry.op = "rewrite" /\ entry.status # 404) =>
               \/ known
               \/ \E j \in 1..(k - 1) :
                    /\ log[j].op = "generate"
                    /\ log[j].profile_id = entry.profile_id
          /\ entry.op = "onboard" => ~known
  /\ \A profile_id \in BodyIds :
       InUse(profile_id, Len(log) + 1) =>
         /\ load_profile(files, profile_id) # <<>>
         /\ StyleProfile(load_profile(files, profile_id)[1].profile)
              = Onboarded(profile_id, Len(log) + 1)

====
